---- MODULE Spec2Model ----
(***************************************************************************)
(* Model of prudent-frontend/lib/api.ts: the response normalizer           *)
(* (normalizeSource, normalizeSources, hashString) and the transport       *)
(* client (parseError, askKnowledgeAgent, listChatSessions,                *)
(* getChatSessionMessages, webSearch).                                     *)
(*                                                                         *)
(* JavaScript strings are sequences of one-character strings, JSON values  *)
(* are tagged records, and 32-bit integers are pairs of 16-bit halves, so  *)
(* that String(), trim(), toLowerCase(), JSON.stringify() and the hash are *)
(* computed the way the runtime computes them.                             *)
(***************************************************************************)
EXTENDS Integers, Sequences, FiniteSets, TLC

----------------------------------------------------------------------------
(* Bounds of the model                                                     *)

\* largest positional index handed to normalizeSource
MaxIndex == 1
\* longest array handed to normalizeSources
MaxSources == 2

----------------------------------------------------------------------------
(* Characters and strings                                                  *)

\* printable ASCII, code 32 first (code 96 is a placeholder, never matched)
Ascii ==
  << " ", "!", "\"", "#", "$", "%", "&", "'", "(", ")", "*", "+", ",", "-", ".", "/",
     "0", "1", "2", "3", "4", "5", "6", "7", "8", "9", ":", ";", "<", "=", ">", "?",
     "@", "A", "B", "C", "D", "E", "F", "G", "H", "I", "J", "K", "L", "M", "N", "O",
     "P", "Q", "R", "S", "T", "U", "V", "W", "X", "Y", "Z", "[", "\\", "]", "^", "_",
     "GRAVE", "a", "b", "c", "d", "e", "f", "g", "h", "i", "j", "k", "l", "m", "n", "o",
     "p", "q", "r", "s", "t", "u", "v", "w", "x", "y", "z", "{", "|", "}", "~" >>

\* String.prototype.charCodeAt for one character
CharCode(c) ==
  IF c = "\t" THEN 9
  ELSE IF c = "\n" THEN 10
  ELSE 31 + (CHOOSE i \in 1..Len(Ascii) : Ascii[i] = c)

\* String.prototype.toLowerCase, one character
LowerChar(c) ==
  IF c \in {"\t", "\n"} THEN c
  ELSE LET code == CharCode(c)
       IN IF code >= 65 /\ code <= 90 THEN Ascii[code + 32 - 31] ELSE c

\* faulty variant: the lower-casing left out
ToLowerCase_Skipped(s) == s

\* String.prototype.toLowerCase
ToLowerCase(s) == [i \in 1..Len(s) |-> LowerChar(s[i])]

\* the white space String.prototype.trim strips
WhiteSpace == {" ", "\t", "\n"}

RECURSIVE TrimStart(_)
TrimStart(s) ==
  IF s = <<>> THEN <<>>
  ELSE IF Head(s) \in WhiteSpace THEN TrimStart(Tail(s))
  ELSE s

RECURSIVE TrimEnd(_)
TrimEnd(s) ==
  IF s = <<>> THEN <<>>
  ELSE IF s[Len(s)] \in WhiteSpace THEN TrimEnd(SubSeq(s, 1, Len(s) - 1))
  ELSE s

\* String.prototype.trim
Trim(s) == TrimEnd(TrimStart(s))

\* decimal digits of a natural number
RECURSIVE NatDigits(_)
NatDigits(n) ==
  IF n < 10 THEN << Ascii[n + 17] >>
  ELSE NatDigits(n \div 10) \o << Ascii[(n % 10) + 17] >>

\* Number.prototype.toString for an integer
IntToString(n) == IF n < 0 THEN <<"-">> \o NatDigits(0 - n) ELSE NatDigits(n)

----------------------------------------------------------------------------
(* JSON values, as JSON.parse builds them                                  *)

JV(t, s, n, kv) == [t |-> t, s |-> s, n |-> n, kv |-> kv]

Undefined == JV("undefined", <<>>, 0, <<>>)
Null      == JV("null", <<>>, 0, <<>>)
Str(s)    == JV("string", s, 0, <<>>)
Num(n)    == JV("number", <<>>, n, <<>>)
Bool(b)   == JV("boolean", <<>>, IF b THEN 1 ELSE 0, <<>>)
\* an array: its elements in order
Arr(es)   == JV("array", <<>>, 0, [i \in 1..Len(es) |-> [k |-> <<>>, v |-> es[i]]])
\* an object: its own properties in insertion order, keys unique
Obj(kvs)  == JV("object", <<>>, 0, kvs)
KV(k, v)  == [k |-> k, v |-> v]

IsNullish(v) == v.t \in {"undefined", "null"}
IsArray(v)   == v.t = "array"
\* ToBoolean
Truthy(v) ==
  CASE v.t \in {"undefined", "null"} -> FALSE
    [] v.t = "string"  -> v.s # <<>>
    [] v.t = "number"  -> v.n # 0
    [] v.t = "boolean" -> v.n = 1
    [] OTHER -> TRUE

HasOwn(o, key) == o.t = "object" /\ \E i \in 1..Len(o.kv) : o.kv[i].k = key

\* o?.key for the property names api.ts reads: an own property of an object,
\* undefined on null, undefined and on every primitive and array
Get(o, key) ==
  IF HasOwn(o, key)
  THEN o.kv[CHOOSE i \in 1..Len(o.kv) : o.kv[i].k = key].v
  ELSE Undefined

\* a ?? b ?? c ...: the first candidate that is neither null nor undefined
RECURSIVE Coalesce(_)
Coalesce(cands) ==
  IF Len(cands) = 1 THEN cands[1]
  ELSE IF IsNullish(cands[1]) THEN Coalesce(Tail(cands))
  ELSE cands[1]

\* result of an evaluation that may throw
Ok(s)  == [threw |-> FALSE, s |-> s]
Threw  == [threw |-> TRUE, s |-> <<>>]

\* String(v): ToString of a JSON value.  An object converts through
\* OrdinaryToPrimitive: an own "toString" property of a parsed object is never
\* callable and Object.prototype.valueOf returns the object, so TypeError;
\* without it Object.prototype.toString answers.  An array joins its elements.
K_toString == <<"t","o","S","t","r","i","n","g">>
ObjectObject == <<"[","o","b","j","e","c","t"," ","O","b","j","e","c","t","]">>

RECURSIVE JsString(_)
RECURSIVE JoinElems(_, _)
JoinElems(kv, i) ==
  IF i > Len(kv) THEN Ok(<<>>)
  ELSE LET e    == kv[i].v
           one  == IF IsNullish(e) THEN Ok(<<>>) ELSE JsString(e)
           rest == JoinElems(kv, i + 1)
       IN IF one.threw \/ rest.threw THEN Threw
          ELSE Ok(one.s \o (IF i < Len(kv) THEN <<",">> ELSE <<>>) \o rest.s)

JsString(v) ==
  CASE v.t = "undefined" -> Ok(<<"u","n","d","e","f","i","n","e","d">>)
    [] v.t = "null"      -> Ok(<<"n","u","l","l">>)
    [] v.t = "string"    -> Ok(v.s)
    [] v.t = "number"    -> Ok(IntToString(v.n))
    [] v.t = "boolean"   -> Ok(IF v.n = 1 THEN <<"t","r","u","e">> ELSE <<"f","a","l","s","e">>)
    [] v.t = "array"     -> JoinElems(v.kv, 1)
    [] v.t = "object"    -> IF HasOwn(v, K_toString) THEN Threw ELSE Ok(ObjectObject)

\* JSON.stringify of a string: quoted, with the escapes of QuoteJSONString
RECURSIVE QuoteChars(_)
QuoteChars(s) ==
  IF s = <<>> THEN <<>>
  ELSE (CASE Head(s) = "\"" -> <<"\\", "\"">>
          [] Head(s) = "\\" -> <<"\\", "\\">>
          [] Head(s) = "\n" -> <<"\\", "n">>
          [] Head(s) = "\t" -> <<"\\", "t">>
          [] OTHER -> << Head(s) >>) \o QuoteChars(Tail(s))

Quote(s) == <<"\"">> \o QuoteChars(s) \o <<"\"">>

\* JSON.stringify(v) of a parsed JSON value (no toJSON, no cycles, no gaps)
RECURSIVE Stringify(_)
RECURSIVE StringifyMembers(_, _, _)
StringifyMembers(kv, i, keyed) ==
  IF i > Len(kv) THEN <<>>
  ELSE (IF keyed THEN Quote(kv[i].k) \o <<":">> ELSE <<>>)
       \o Stringify(kv[i].v)
       \o (IF i < Len(kv) THEN <<",">> ELSE <<>>)
       \o StringifyMembers(kv, i + 1, keyed)

Stringify(v) ==
  CASE v.t = "string"  -> Quote(v.s)
    [] v.t = "number"  -> IntToString(v.n)
    [] v.t = "boolean" -> IF v.n = 1 THEN <<"t","r","u","e">> ELSE <<"f","a","l","s","e">>
    [] v.t = "array"   -> <<"[">> \o StringifyMembers(v.kv, 1, FALSE) \o <<"]">>
    [] v.t = "object"  -> <<"{">> \o StringifyMembers(v.kv, 1, TRUE) \o <<"}">>
    [] OTHER           -> <<"n","u","l","l">>

----------------------------------------------------------------------------
(* 32-bit integers as two 16-bit halves: value = hi * 2^16 + lo mod 2^32   *)

Half == 65536
I32(hi, lo) == [hi |-> hi, lo |-> lo]
Zero32 == I32(0, 0)
IsNeg32(a) == a.hi >= 32768

\* a + b, wrapped to 32 bits
Add32(a, b) ==
  LET lo == a.lo + b.lo
  IN I32((a.hi + b.hi + (lo \div Half)) % Half, lo % Half)

\* -a, wrapped to 32 bits (twos complement)
Neg32(a) ==
  LET lo == (Half - 1 - a.lo) + 1
  IN I32(((Half - 1 - a.hi) + (lo \div Half)) % Half, lo % Half)

\* h << 5, the int32 result
Shl5(a) ==
  LET lo == a.lo * 32
  IN I32((a.hi * 32 + (lo \div Half)) % Half, lo % Half)

\* Math.abs of an int32, as an unsigned magnitude (2^31 for the minimum)
Abs32(a) == IF IsNeg32(a) THEN Neg32(a) ELSE a

\* decimal digits of an unsigned magnitude
RECURSIVE Digits32(_)
Digits32(a) ==
  LET qhi == a.hi \div 10
      t   == (a.hi % 10) * Half + a.lo
      q   == I32(qhi, t \div 10)
      d   == << Ascii[(t % 10) + 17] >>
  IN IF q = Zero32 THEN d ELSE Digits32(q) \o d

\* faulty variant: (h << 5) + h, a multiplier of 33
HashStep_Plus(h, c) == Add32(Add32(Shl5(h), h), I32(0, CharCode(c)))

\* one turn of the loop of hashString: h = (h << 5) - h + charCode; h |= 0
HashStep(h, c) == Add32(Add32(Shl5(h), Neg32(h)), I32(0, CharCode(c)))

\* the loop over input[from..to], left to right.  The range is split in halves
\* and h is inspected first (h.hi is never negative) only to keep the
\* evaluation shallow; the steps are taken in the order of the loop.
RECURSIVE HashRange(_, _, _, _)
HashRange(h, input, from, to) ==
  IF h.hi < 0 \/ from > to THEN h
  ELSE IF from = to THEN HashStep(h, input[from])
  ELSE LET mid == (from + to) \div 2
       IN HashRange(HashRange(h, input, from, mid), input, mid + 1, to)

hashString(input) == HashRange(Zero32, input, 1, Len(input))

----------------------------------------------------------------------------
(* Property names and literals of lib/api.ts                               *)

K_id == <<"i","d">>
K_title == <<"t","i","t","l","e">>
K_section == <<"s","e","c","t","i","o","n">>
K_source == <<"s","o","u","r","c","e">>
K_accessLevel == <<"a","c","c","e","s","s","L","e","v","e","l">>
K_access_level == <<"a","c","c","e","s","s","_","l","e","v","e","l">>
K_metadata == <<"m","e","t","a","d","a","t","a">>
K_heading == <<"h","e","a","d","i","n","g">>
K_url == <<"u","r","l">>
K_path == <<"p","a","t","h">>
K_snippet == <<"s","n","i","p","p","e","t">>
K_text == <<"t","e","x","t">>
K_fullText == <<"f","u","l","l","T","e","x","t">>
K_full_text == <<"f","u","l","l","_","t","e","x","t">>

S_empty    == <<>>
S_Source   == <<"S","o","u","r","c","e">>
S_public   == <<"p","u","b","l","i","c">>
S_internal == <<"i","n","t","e","r","n","a","l">>
S_srcDash  == <<"s","r","c","-">>

\* faulty variant: a key the object already has keeps its value
SetProp_KeepRaw(kvs, key, val) ==
  IF \E i \in 1..Len(kvs) : kvs[i].k = key THEN kvs ELSE Append(kvs, KV(key, val))

\* obj with property key set to val: an existing key keeps its place
SetProp(kvs, key, val) ==
  IF \E i \in 1..Len(kvs) : kvs[i].k = key
  THEN [i \in 1..Len(kvs) |-> IF kvs[i].k = key THEN KV(key, val) ELSE kvs[i]]
  ELSE Append(kvs, KV(key, val))

RECURSIVE SetProps(_, _)
SetProps(kvs, upd) ==
  IF upd = <<>> THEN kvs ELSE SetProps(SetProp(kvs, Head(upd).k, Head(upd).v), Tail(upd))

\* the own enumerable properties { ...s } copies: those of an object, the
\* indexed elements of an array, the indexed characters of a string
SpreadOf(s) ==
  CASE s.t = "object" -> s.kv
    [] s.t = "array"  -> [i \in 1..Len(s.kv) |-> KV(NatDigits(i - 1), s.kv[i].v)]
    [] s.t = "string" -> [i \in 1..Len(s.s) |-> KV(NatDigits(i - 1), Str(<< s.s[i] >>))]
    [] OTHER -> <<>>

----------------------------------------------------------------------------
(* Response normalizer                                                     *)

Returned(v) == [threw |-> FALSE, val |-> v]
Raised      == [threw |-> TRUE, val |-> Undefined]

\* the candidates of each field, in priority order (lines 58-69)
IdCands(s)      == << Get(s, K_id), Str(S_empty) >>
\* faulty variant: the title defaulting to the empty string
TitleCands_NoDefault(s) ==
  << Get(s, K_title), Get(Get(s, K_metadata), K_title), Str(S_empty) >>

TitleCands(s)   == << Get(s, K_title), Get(Get(s, K_metadata), K_title), Str(S_Source) >>
SectionCands(s) == << Get(s, K_section), Get(Get(s, K_metadata), K_section),
                      Get(Get(s, K_metadata), K_heading), Str(S_empty) >>
SourceCands(s)  == << Get(s, K_source), Get(s, K_url), Get(Get(s, K_metadata), K_source),
                      Get(Get(s, K_metadata), K_path), Str(S_empty) >>
AccessCands(s)  == << Get(s, K_accessLevel), Get(s, K_access_level),
                      Get(Get(s, K_metadata), K_accessLevel),
                      Get(Get(s, K_metadata), K_access_level), Str(S_internal) >>
SnippetCands(s) == << Get(s, K_snippet), Get(Get(s, K_metadata), K_snippet),
                      Get(Get(s, K_metadata), K_text), Str(S_empty) >>
\* faulty variant: full_text tried before fullText
FullTextCands_SnakeFirst(s, snippet) ==
                   << Get(s, K_full_text), Get(s, K_fullText),
                      Get(Get(s, K_metadata), K_fullText),
                      Get(Get(s, K_metadata), K_text), Str(snippet) >>

FullTextCands(s, snippet) ==
                   << Get(s, K_fullText), Get(s, K_full_text),
                      Get(Get(s, K_metadata), K_fullText),
                      Get(Get(s, K_metadata), K_text), Str(snippet) >>

\* `src-${idx}-${Math.abs(hashString(JSON.stringify(s ?? {})))}`
SyntheticId(s, idx) ==
  S_srcDash \o NatDigits(idx) \o <<"-">>
    \o Digits32(Abs32(hashString(Stringify(IF IsNullish(s) THEN Obj(<<>>) ELSE s))))

\* faulty variant: the comparison made after trimming
AccessOf_Trimmed(alRaw) == IF Trim(alRaw) = S_public THEN S_public ELSE S_internal

\* faulty variant: every value treated as internal
AccessOf_Closed(alRaw) == S_internal

\* alRaw === "public" ? "public" : "internal"
AccessOf(alRaw) == IF alRaw = S_public THEN S_public ELSE S_internal

normalizeSource(s, idx) ==
  LET idS      == JsString(Coalesce(IdCands(s)))
      titleS   == JsString(Coalesce(TitleCands(s)))
      sectionS == JsString(Coalesce(SectionCands(s)))
      sourceS  == JsString(Coalesce(SourceCands(s)))
      alS      == JsString(Coalesce(AccessCands(s)))
      snippetS == JsString(Coalesce(SnippetCands(s)))
      snippet  == Trim(snippetS.s)
      fullS    == JsString(Coalesce(FullTextCands(s, snippet)))
      id       == IF Trim(idS.s) # <<>> THEN Trim(idS.s) ELSE SyntheticId(s, idx)
  IN IF idS.threw \/ titleS.threw \/ sectionS.threw \/ sourceS.threw
        \/ alS.threw \/ snippetS.threw \/ fullS.threw
     THEN Raised
     ELSE Returned(Obj(SetProps(SpreadOf(s),
            << KV(K_id, Str(id)),
               KV(K_title, Str(Trim(titleS.s))),
               KV(K_section, Str(Trim(sectionS.s))),
               KV(K_source, Str(Trim(sourceS.s))),
               KV(K_accessLevel, Str(AccessOf(ToLowerCase(alS.s)))),
               KV(K_snippet, Str(snippet)),
               KV(K_fullText, Str(Trim(fullS.s))) >>)))

\* arr.map((s, i) => normalizeSource(s, i)): the first element that raises
\* ends the call
RECURSIVE MapSources(_, _)
MapSources(kv, i) ==
  IF i > Len(kv) THEN Returned(Arr(<<>>))
  ELSE LET one  == normalizeSource(kv[i].v, i - 1)
           rest == MapSources(kv, i + 1)
       IN IF one.threw \/ rest.threw THEN Raised
          ELSE Returned(JV("array", <<>>, 0, << KV(<<>>, one.val) >> \o rest.val.kv))

\* normalizeSources leaving out the first element of the array
normalizeSources_SkipFirst(arr) ==
  IF ~IsArray(arr) THEN Returned(Arr(<<>>)) ELSE MapSources(arr.kv, 2)

normalizeSources(arr) ==
  IF ~IsArray(arr) THEN Returned(Arr(<<>>)) ELSE MapSources(arr.kv, 1)

----------------------------------------------------------------------------
(* Inputs: the JSON values a backend can send                              *)

S_PUBLIC   == <<"P","U","B","L","I","C">>
S_PublicSp == <<"P","u","b","l","i","c"," ">>
S_unknown  == <<"u","n","k","n","o","w","n">>
S_blank    == <<" "," ">>
S_a        == <<"a">>
S_aPadded  == <<" ","a"," ">>
S_T        == <<"T","i","t","l","e">>
S_TPadded  == <<"T","i","t","l","e"," ">>
S_sec      == <<"s","1">>
S_url      == <<"h","t","t","p",":","/","/","x">>
S_snip     == <<"s","n","i","p">>
S_snipPad  == <<"\t","s","n","i","p">>
S_full     == <<"f","u","l","l"," ","t","e","x","t">>
S_fullNl   == <<"f","u","l","l"," ","t","e","x","t","\n">>

\* a parsed object whose own "toString" property is a number
ToStringObj == Obj(<< KV(K_toString, Num(1)) >>)

\* Undefined stands for "property absent" when an input object is built
Opt(k, v) == IF v = Undefined THEN <<>> ELSE << KV(k, v) >>

AccessVals == { Undefined, Null, Str(S_public), Str(S_PUBLIC), Str(S_PublicSp),
                Str(S_unknown), Arr(<< Str(S_public) >>) }

\* metadata: absent, null, a string, or an object with access-level fields
AccessMetas ==
  { Undefined, Null, Str(S_public) }
  \cup { Obj(Opt(K_accessLevel, a) \o Opt(K_access_level, b)) :
           a \in AccessVals, b \in AccessVals }

AccessRaws ==
  { Obj(Opt(K_accessLevel, a) \o Opt(K_access_level, b) \o Opt(K_metadata, m)) :
      a \in AccessVals, b \in AccessVals, m \in AccessMetas }

IdVals == { Undefined, Null, Str(S_empty), Str(S_blank), Str(S_a), Str(S_aPadded),
            Num(0), Num(7), Bool(FALSE), Arr(<<>>), ToStringObj }

IdRaws ==
  { Obj(Opt(K_id, i) \o Opt(K_title, t) \o Opt(K_snippet, x)) :
      i \in IdVals,
      t \in { Undefined, Str(S_T), Num(-12), ToStringObj },
      x \in { Undefined, Str(S_snip), Str(S_fullNl) } }

\* all seven canonical fields present
FullRaws ==
  { Obj(<< KV(K_id, Str(i)), KV(K_title, Str(t)), KV(K_section, Str(c)),
           KV(K_source, Str(S_url)), KV(K_accessLevel, Str(a)),
           KV(K_snippet, Str(x)), KV(K_fullText, Str(f)) >>) :
      i \in { S_a, S_aPadded }, t \in { S_T, S_TPadded }, c \in { S_sec, S_empty },
      a \in { S_public, S_internal, S_PUBLIC, S_unknown },
      x \in { S_snip, S_snipPad }, f \in { S_full, S_fullNl } }

\* the alternate field names of section, source, snippet and fullText
AltRaws ==
  { Obj(Opt(K_url, u) \o Opt(K_full_text, f) \o Opt(K_metadata, m)) :
      u \in { Undefined, Str(S_url) }, f \in { Undefined, Str(S_full) },
      m \in { Obj(<<>>), Num(3),
              Obj(<< KV(K_text, Str(S_snip)), KV(K_heading, Str(S_sec)) >>),
              Obj(<< KV(K_title, Str(S_TPadded)), KV(K_path, Str(S_a)),
                     KV(K_snippet, Str(S_snipPad)), KV(K_fullText, Null) >>),
              Obj(<< KV(K_section, ToStringObj) >>) } }

\* values that are not objects
ScalarRaws == { Null, Str(S_a), Str(S_public), Num(5), Bool(TRUE),
                Arr(<< Str(S_a) >>), Arr(<<>>) }

\* a different text for each place a snippet or a full text can come from
S_text(n) == << "t" >> \o NatDigits(n)

\* every combination of the six places, each absent or holding its own text
\* (fullText also null)
TextRaws ==
  { Obj(Opt(K_fullText, a) \o Opt(K_full_text, b) \o Opt(K_snippet, e)
        \o Opt(K_metadata, Obj(Opt(K_fullText, c) \o Opt(K_text, d) \o Opt(K_snippet, f)))) :
      a \in { Undefined, Null, Str(S_text(1)) }, b \in { Undefined, Str(S_text(2)) },
      c \in { Undefined, Str(S_text(3)) }, d \in { Undefined, Str(S_text(4)) },
      e \in { Undefined, Str(S_text(5)) }, f \in { Undefined, Str(S_text(6)) } }

RawPool ==
  AccessRaws \cup IdRaws \cup FullRaws \cup AltRaws \cup TextRaws \cup ScalarRaws

\* the elements of the arrays handed to normalizeSources
ElemPool ==
  { Obj(<<>>), Null, Str(S_a),
    Obj(<< KV(K_id, Str(S_a)) >>), Obj(<< KV(K_id, Str(S_aPadded)) >>),
    Obj(<< KV(K_id, Str(SyntheticId(Obj(<<>>), 1))) >>),
    Obj(<< KV(K_title, Str(S_T)) >>),
    Obj(<< KV(K_title, ToStringObj) >>),
    Obj(<< KV(K_accessLevel, Str(S_public)), KV(K_section, Str(S_sec)),
           KV(K_fullText, Str(S_full)) >>),
    Obj(<< KV(K_access_level, Str(S_PUBLIC)), KV(K_snippet, Str(S_snip)),
           KV(K_full_text, Str(S_fullNl)) >>),
    Obj(<< KV(K_accessLevel, Str(S_unknown)), KV(K_access_level, Str(S_public)) >>) }

RECURSIVE SeqsUpTo(_, _)
SeqsUpTo(S, n) ==
  IF n = 0 THEN { <<>> }
  ELSE LET shorter == SeqsUpTo(S, n - 1)
       IN shorter \cup { Append(q, e) : q \in shorter, e \in S }

ArrPool == { Arr(q) : q \in SeqsUpTo(ElemPool, MaxSources) }
              \cup { Null, Undefined, Obj(<<>>), Str(S_a), Num(5) }

----------------------------------------------------------------------------
(* Citations of the chat component (knowledge-agent-enhanced.tsx)          *)

\* lines 32-40, one element: s.id on null or undefined raises
CitationOf(s) ==
  IF IsNullish(s) THEN Raised
  ELSE Returned(Obj(<< KV(K_id, Get(s, K_id)),
                       KV(K_title, Get(s, K_title)),
                       KV(K_source, Get(s, K_source)),
                       KV(K_section, Coalesce(<< Get(s, K_section), Undefined >>)),
                       KV(K_accessLevel, Coalesce(<< Get(s, K_access_level), Str(S_internal) >>)),
                       KV(K_snippet, Coalesce(<< Get(s, K_snippet), Str(S_empty) >>)),
                       KV(K_fullText, Coalesce(<< Get(s, K_full_text), Str(S_empty) >>)) >>))

RECURSIVE MapCitations(_, _)
MapCitations(kv, i) ==
  IF i > Len(kv) THEN Returned(Arr(<<>>))
  ELSE LET one  == CitationOf(kv[i].v)
           rest == MapCitations(kv, i + 1)
       IN IF one.threw \/ rest.threw THEN Raised
          ELSE Returned(JV("array", <<>>, 0, << KV(<<>>, one.val) >> \o rest.val.kv))

\* sources.map((s) => ({ ... })), sources an array
mapBackendSourcesToCitations(sources) == MapCitations(sources.kv, 1)

\* x.toString() of a value (x || dflt), which is never null or undefined
ToStringOf(x) == JsString(x)

\* (v || dflt).toString()
TextOr(v, dflt) ==
  LET c == ToStringOf(IF Truthy(v) THEN v ELSE Str(dflt))
  IN IF c.threw THEN Raised ELSE Returned(Str(c.s))

\* SourcesPanel, lines 31-40 of part_002, one element
PanelSourceOf(s) ==
  LET id       == TextOr(Get(s, K_id), S_empty)
      title    == TextOr(Get(s, K_title), S_Source)
      section  == TextOr(Get(s, K_section), S_empty)
      source   == TextOr(Get(s, K_source), S_empty)
      snippet  == TextOr(Get(s, K_snippet), S_empty)
      fullText == TextOr(IF Truthy(Get(s, K_fullText)) THEN Get(s, K_fullText)
                         ELSE Get(s, K_snippet), S_empty)
      access   == IF Get(s, K_accessLevel) = Str(S_public) THEN S_public ELSE S_internal
  IN IF id.threw \/ title.threw \/ section.threw \/ source.threw \/ snippet.threw
        \/ fullText.threw
     THEN Raised
     ELSE Returned(Obj(SetProps(SpreadOf(s),
            << KV(K_id, id.val), KV(K_title, title.val), KV(K_section, section.val),
               KV(K_source, source.val), KV(K_accessLevel, Str(access)),
               KV(K_snippet, snippet.val), KV(K_fullText, fullText.val) >>)))

RECURSIVE MapPanel(_, _)
MapPanel(kv, i) ==
  IF i > Len(kv) THEN Returned(Arr(<<>>))
  ELSE LET one  == PanelSourceOf(kv[i].v)
           rest == MapPanel(kv, i + 1)
       IN IF one.threw \/ rest.threw THEN Raised
          ELSE Returned(JV("array", <<>>, 0, << KV(<<>>, one.val) >> \o rest.val.kv))

\* (sources || []).map(...): the list the panel renders
PanelNormalized(sources) ==
  MapPanel((IF Truthy(sources) THEN sources ELSE Arr(<<>>)).kv, 1)

----------------------------------------------------------------------------
(* The mock knowledge base and its search (performRAG)                     *)

\* a document of KNOWLEDGE_BASE: the fields the search reads (summary is the
\* field snippet in the enhanced component)
Doc(id, title, content, summary, accessLevel) ==
  [id |-> id, title |-> title, content |-> content, summary |-> summary,
   accessLevel |-> accessLevel]

T_Doc1 ==
  << "C", "o", "m", "p", "a", "n", "y", " ", "U", "n", "d", "e", "r", "w",
     "r", "i", "t", "i", "n", "g", " ", "R", "u", "l", "e", "s", " ", "E",
     "n", "g", "i", "n", "e" >>

C_Doc1 ==
  << "T", "h", "e", " ", "u", "n", "d", "e", "r", "w", "r", "i", "t", "i",
     "n", "g", " ", "r", "u", "l", "e", "s", " ", "e", "n", "g", "i", "n",
     "e", " ", "i", "s", " ", "i", "m", "p", "l", "e", "m", "e", "n", "t",
     "e", "d", " ", "u", "s", "i", "n", "g", " ", "a", " ", "d", "e", "c",
     "i", "s", "i", "o", "n", " ", "t", "r", "e", "e", " ", "m", "o", "d",
     "e", "l", " ", "w", "i", "t", "h", " ", "1", "5", "0", "+", " ", "r",
     "u", "l", "e", "s", ".", ".", "." >>

Y_Doc1 ==
  << "S", "y", "s", "t", "e", "m", " ", "o", "v", "e", "r", "v", "i", "e",
     "w", " ", "o", "f", " ", "t", "h", "e", " ", "u", "n", "d", "e", "r",
     "w", "r", "i", "t", "i", "n", "g", " ", "r", "u", "l", "e", "s", " ",
     "e", "n", "g", "i", "n", "e" >>

T_Doc2 ==
  << "D", "a", "t", "a", " ", "M", "o", "d", "e", "l", " ", "f", "o", "r",
     " ", "B", "o", "r", "r", "o", "w", "e", "r", " ", "E", "m", "p", "l",
     "o", "y", "m", "e", "n", "t" >>

C_Doc2 ==
  << "L", "a", "t", "e", "s", "t", " ", "d", "e", "c", "i", "s", "i", "o",
     "n", ":", " ", "E", "m", "p", "l", "o", "y", "m", "e", "n", "t", " ",
     "d", "a", "t", "a", " ", "i", "s", " ", "s", "t", "r", "u", "c", "t",
     "u", "r", "e", "d", " ", "w", "i", "t", "h", " ", "h", "i", "s", "t",
     "o", "r", "i", "c", "a", "l", " ", "t", "r", "a", "c", "k", "i", "n",
     "g", ".", ".", "." >>

Y_Doc2 ==
  << "D", "a", "t", "a", "b", "a", "s", "e", " ", "s", "c", "h", "e", "m",
     "a", " ", "f", "o", "r", " ", "e", "m", "p", "l", "o", "y", "m", "e",
     "n", "t", " ", "i", "n", "f", "o", "r", "m", "a", "t", "i", "o", "n" >>

T_Doc3 ==
  << "D", "o", "c", "u", "m", "e", "n", "t", "a", "t", "i", "o", "n", " ",
     "S", "e", "r", "v", "i", "c", "e", " ", "S", "L", "A", "s" >>

C_Doc3 ==
  << "T", "a", "r", "g", "e", "t", " ", "S", "L", "A", ":", " ", "9", "9",
     ".", "9", "%", " ", "u", "p", "t", "i", "m", "e", ".", " ", "F", "a",
     "i", "l", "u", "r", "e", " ", "m", "o", "d", "e", "s", " ", "i", "n",
     "c", "l", "u", "d", "e", " ", "n", "e", "t", "w", "o", "r", "k", " ",
     "t", "i", "m", "e", "o", "u", "t", "s", ",", " ", "p", "a", "r", "s",
     "i", "n", "g", " ", "e", "r", "r", "o", "r", "s", ".", ".", "." >>

Y_Doc3 ==
  << "S", "e", "r", "v", "i", "c", "e", " ", "l", "e", "v", "e", "l", " ",
     "a", "g", "r", "e", "e", "m", "e", "n", "t", "s", " ", "a", "n", "d",
     " ", "f", "a", "i", "l", "u", "r", "e", " ", "m", "o", "d", "e", "s" >>

T_Doc4 ==
  << "A", "P", "I", " ", "D", "o", "c", "u", "m", "e", "n", "t", "a", "t",
     "i", "o", "n" >>

C_Doc4 ==
  << "P", "u", "b", "l", "i", "c", " ", "A", "P", "I", " ", "e", "n", "d",
     "p", "o", "i", "n", "t", "s", " ", "f", "o", "r", " ", "t", "h", "i",
     "r", "d", "-", "p", "a", "r", "t", "y", " ", "i", "n", "t", "e", "g",
     "r", "a", "t", "i", "o", "n", "s", ".", " ", "B", "a", "s", "e", " ",
     "U", "R", "L", ":", " ", "a", "p", "i", ".", "c", "o", "m", "p", "a",
     "n", "y", ".", "c", "o", "m", "/", "v", "1", ".", ".", "." >>

Y_Doc4 ==
  << "P", "u", "b", "l", "i", "c", " ", "A", "P", "I", " ", "r", "e", "f",
     "e", "r", "e", "n", "c", "e", " ", "a", "n", "d", " ", "a", "u", "t",
     "h", "e", "n", "t", "i", "c", "a", "t", "i", "o", "n" >>

T_Doc5 ==
  << "P", "r", "o", "j", "e", "c", "t", " ", "G", "u", "i", "d", "e", "l",
     "i", "n", "e", "s" >>

C_Doc5 ==
  << "F", "o", "l", "l", "o", "w", " ", "c", "o", "d", "i", "n", "g", " ",
     "s", "t", "a", "n", "d", "a", "r", "d", "s", ",", " ", "u", "s", "e",
     " ", "m", "e", "a", "n", "i", "n", "g", "f", "u", "l", " ", "v", "a",
     "r", "i", "a", "b", "l", "e", " ", "n", "a", "m", "e", "s", ",", " ",
     "w", "r", "i", "t", "e", " ", "u", "n", "i", "t", " ", "t", "e", "s",
     "t", "s", ".", ".", "." >>

Y_Doc5 ==
  << "D", "e", "v", "e", "l", "o", "p", "m", "e", "n", "t", " ", "s", "t",
     "a", "n", "d", "a", "r", "d", "s", " ", "a", "n", "d", " ", "b", "e",
     "s", "t", " ", "p", "r", "a", "c", "t", "i", "c", "e", "s" >>

T_Doc6 ==
  << "A", "c", "c", "e", "s", "s", " ", "C", "o", "n", "t", "r", "o", "l",
     " ", "P", "o", "l", "i", "c", "i", "e", "s" >>

C_Doc6 ==
  << "A", "d", "m", "i", "n", " ", "r", "o", "l", "e", " ", "h", "a", "s",
     " ", "a", "c", "c", "e", "s", "s", " ", "t", "o", " ", "a", "l", "l",
     " ", "s", "y", "s", "t", "e", "m", "s", ".", " ", "E", "m", "p", "l",
     "o", "y", "e", "e", " ", "r", "o", "l", "e", " ", "h", "a", "s", " ",
     "a", "c", "c", "e", "s", "s", " ", "t", "o", " ", "p", "u", "b", "l",
     "i", "c", " ", "d", "o", "c", "s", ".", ".", "." >>

Y_Doc6 ==
  << "I", "d", "e", "n", "t", "i", "t", "y", " ", "a", "n", "d", " ", "a",
     "c", "c", "e", "s", "s", " ", "m", "a", "n", "a", "g", "e", "m", "e",
     "n", "t", " ", "p", "o", "l", "i", "c", "i", "e", "s" >>

CE_Doc1 ==
  << "T", "h", "e", " ", "u", "n", "d", "e", "r", "w", "r", "i", "t", "i",
     "n", "g", " ", "r", "u", "l", "e", "s", " ", "e", "n", "g", "i", "n",
     "e", " ", "i", "s", " ", "i", "m", "p", "l", "e", "m", "e", "n", "t",
     "e", "d", " ", "u", "s", "i", "n", "g", " ", "a", " ", "d", "e", "c",
     "i", "s", "i", "o", "n", " ", "t", "r", "e", "e", " ", "m", "o", "d",
     "e", "l", " ", "w", "i", "t", "h", " ", "1", "5", "0", "+", " ", "r",
     "u", "l", "e", "s", " ", "f", "o", "r", " ", "e", "v", "a", "l", "u",
     "a", "t", "i", "n", "g", " ", "b", "o", "r", "r", "o", "w", "e", "r",
     " ", "c", "r", "e", "d", "i", "t", "w", "o", "r", "t", "h", "i", "n",
     "e", "s", "s", ".", ".", "." >>

N_Doc1 ==
  << "D", "e", "c", "i", "s", "i", "o", "n", " ", "t", "r", "e", "e", " ",
     "m", "o", "d", "e", "l", " ", "w", "i", "t", "h", " ", "1", "5", "0",
     "+", " ", "r", "u", "l", "e", "s", " ", "f", "o", "r", " ", "c", "r",
     "e", "d", "i", "t", "w", "o", "r", "t", "h", "i", "n", "e", "s", "s",
     " ", "e", "v", "a", "l", "u", "a", "t", "i", "o", "n" >>

CE_Doc2 ==
  << "E", "m", "p", "l", "o", "y", "m", "e", "n", "t", " ", "d", "a", "t",
     "a", " ", "i", "s", " ", "s", "t", "r", "u", "c", "t", "u", "r", "e",
     "d", " ", "w", "i", "t", "h", " ", "h", "i", "s", "t", "o", "r", "i",
     "c", "a", "l", " ", "t", "r", "a", "c", "k", "i", "n", "g", ",", " ",
     "s", "a", "l", "a", "r", "y", " ", "h", "i", "s", "t", "o", "r", "y",
     ",", " ", "a", "n", "d", " ", "e", "m", "p", "l", "o", "y", "m", "e",
     "n", "t", " ", "g", "a", "p", "s", ".", ".", "." >>

N_Doc2 ==
  << "E", "m", "p", "l", "o", "y", "m", "e", "n", "t", " ", "d", "a", "t",
     "a", " ", "w", "i", "t", "h", " ", "h", "i", "s", "t", "o", "r", "i",
     "c", "a", "l", " ", "t", "r", "a", "c", "k", "i", "n", "g", " ", "a",
     "n", "d", " ", "s", "a", "l", "a", "r", "y", " ", "i", "n", "f", "o",
     "r", "m", "a", "t", "i", "o", "n" >>

N_Doc3 ==
  << "9", "9", ".", "9", "%", " ", "u", "p", "t", "i", "m", "e", " ", "S",
     "L", "A", " ", "w", "i", "t", "h", " ", "d", "o", "c", "u", "m", "e",
     "n", "t", "e", "d", " ", "f", "a", "i", "l", "u", "r", "e", " ", "m",
     "o", "d", "e", "s" >>

N_Doc4 ==
  << "R", "E", "S", "T", " ", "A", "P", "I", " ", "w", "i", "t", "h", " ",
     "a", "u", "t", "h", "e", "n", "t", "i", "c", "a", "t", "i", "o", "n",
     " ", "a", "n", "d", " ", "J", "S", "O", "N", "/", "X", "M", "L", " ",
     "s", "u", "p", "p", "o", "r", "t" >>

\* KNOWLEDGE_BASE of the chat component (part_003, lines 6-60)
KNOWLEDGE_BASE ==
  << Doc(1, T_Doc1, C_Doc1, Y_Doc1, "internal"),
     Doc(2, T_Doc2, C_Doc2, Y_Doc2, "internal"),
     Doc(3, T_Doc3, C_Doc3, Y_Doc3, "internal"),
     Doc(4, T_Doc4, C_Doc4, Y_Doc4, "public"),
     Doc(5, T_Doc5, C_Doc5, Y_Doc5, "public"),
     Doc(6, T_Doc6, C_Doc6, Y_Doc6, "internal") >>

\* KNOWLEDGE_BASE of the enhanced component (lines 58-104)
KNOWLEDGE_BASE_Enhanced ==
  << Doc(1, T_Doc1, CE_Doc1, N_Doc1, "internal"),
     Doc(2, T_Doc2, CE_Doc2, N_Doc2, "internal"),
     Doc(3, T_Doc3, C_Doc3, N_Doc3, "internal"),
     Doc(4, T_Doc4, C_Doc4, N_Doc4, "public"),
     Doc(5, T_Doc5, C_Doc5, Y_Doc5, "public") >>

\* hay.includes(needle)
Includes(hay, needle) ==
  \E i \in 0..(Len(hay) - Len(needle)) : SubSeq(hay, i + 1, i + Len(needle)) = needle

\* docs.filter((doc) => doc.accessLevel === level)
OfLevel(docs, level) == SelectSeq(docs, LAMBDA d : d.accessLevel = level)

\* faulty variant: every role sees every document
filterAccessibleDocs_NoRole(component, role, scope, docs) ==
  IF component = "enhanced" /\ scope = "internal" THEN OfLevel(docs, "internal")
  ELSE IF component = "enhanced" /\ scope = "web" THEN OfLevel(docs, "public")
  ELSE docs

\* filterAccessibleDocs: part_003 lines 113-119 ("chat"), which has no scope,
\* and knowledge-agent-enhanced.tsx lines 160-169 ("enhanced")
filterAccessibleDocs(component, role, scope, docs) ==
  LET filtered == IF role = "admin" THEN docs ELSE OfLevel(docs, "public")
  IN IF component = "enhanced" /\ scope = "internal" THEN OfLevel(filtered, "internal")
     ELSE IF component = "enhanced" /\ scope = "web" THEN OfLevel(filtered, "public")
     ELSE filtered

\* the relevance test of performRAG
Matches(d, queryLower) ==
  \/ Includes(ToLowerCase(d.title), queryLower)
  \/ Includes(ToLowerCase(d.content), queryLower)
  \/ Includes(ToLowerCase(d.summary), queryLower)

\* xs.slice(0, n)
Slice0(xs, n) == SubSeq(xs, 1, IF Len(xs) < n THEN Len(xs) ELSE n)

\* performRAG: part_003 lines 121-136, knowledge-agent-enhanced.tsx lines 171-185
performRAG(component, role, scope, query) ==
  LET queryLower == ToLowerCase(query)
      base       == IF component = "enhanced" THEN KNOWLEDGE_BASE_Enhanced
                    ELSE KNOWLEDGE_BASE
      accessible == filterAccessibleDocs(component, role, scope, base)
  IN Slice0(SelectSeq(accessible, LAMBDA d : Matches(d, queryLower)), 3)

----------------------------------------------------------------------------
(* State                                                                   *)

VARIABLES
  nsCall,   \* a direct call of the normalizer: [fn, arg, idx]
  nsRet,    \* its result: [done, threw, val]
  op,       \* the transport operation in progress, "none" when there is none
  pc,       \* where that operation stands
  res,      \* the Response fetch resolved with
  steps,    \* the steps parseError has attempted, in order: [step, ok]
  outcome,  \* how the operation settled: [kind, val, err, msg]
  mapRet,   \* result of a direct call of mapBackendSourcesToCitations
  messages,        \* useState: the displayed messages
  currentSources,  \* useState: the citations shown in the sources panel
  isLoading,       \* useState
  inputText,       \* useState input: the text of the input box
  activeAgent,     \* useState
  scope,           \* useState
  strictCitations, \* useState
  request,         \* the parameters of the last askKnowledgeAgent call
  threads,         \* useState: the threads of the left panel, newest first
  activeThreadId,  \* useState: the id of the active thread, NoThread for null
  clock,           \* the number of readings of Date.now() that made a thread id
  panelRet,        \* what the sources panel renders for the citations of mapRet
  ragCall,         \* a call of performRAG: [component, role, scope, query]
  ragRet           \* its result: [done, docs]

ragVars == << panelRet, ragCall, ragRet >>
nsVars  == << nsCall, nsRet, mapRet, ragVars >>
tVars   == << op, pc, res, steps, outcome >>
thVars  == << threads, activeThreadId, clock >>
agVars  == << activeAgent, scope, strictCitations >>
uiVars  == << messages, currentSources, isLoading, inputText, activeAgent, scope,
              strictCitations, request, thVars >>
vars    == << nsCall, nsRet, mapRet, op, pc, res, steps, outcome, messages,
              currentSources, isLoading, inputText, activeAgent, scope,
              strictCitations, request, threads, activeThreadId, clock,
              panelRet, ragCall, ragRet >>

\* a Response: ok and status of the status line; the body is a JSON document
\* denoting val ("json"), a text that is not JSON ("text"), a stream that
\* fails while it is read ("broken") or no body at all ("none")
Response(ok, status, kind, val, text) ==
  [ok |-> ok, status |-> status, kind |-> kind, val |-> val, text |-> text,
   bodyUsed |-> FALSE]

NoResponse == Response(FALSE, 0, "none", Undefined, <<>>)
NoOutcome  == [kind |-> "pending", val |-> Undefined, err |-> "", msg |-> <<>>]

TransportIdle ==
  /\ op = "none" /\ pc = "idle" /\ res = NoResponse
  /\ steps = <<>> /\ outcome = NoOutcome

\* a Message of the chat: content is a string value, citations and
\* followUpSuggestions are arrays, or Undefined when the message has none
\* (ids and timestamps, taken from the clock, are left out)
Message(role, content, citations, followUps) ==
  [role |-> role, content |-> content, citations |-> citations,
   followUpSuggestions |-> followUps]

S_Welcome  == <<"W","e","l","c","o","m","e">>
S_Suggest1 == <<"W","h","a","t"," ","a","r","e"," ","t","h","e"," ","A","P","I"," ","d","o","c","s","?">>
S_Suggest2 == <<"S","h","o","w"," ","m","e"," ","t","h","e"," ","S","L","A"," ","d","o","c","u","m","e","n","t","a","t","i","o","n">>
S_Suggest3 == <<"C","o","m","p","a","r","e"," ","e","m","p","l","o","y","m","e","n","t"," ","d","a","t","a"," ","s","o","u","r","c","e","s">>

\* lines 112-125: the welcome message (its texts abbreviated)
WelcomeMessage ==
  Message("assistant", Str(S_Welcome), Undefined,
          Arr(<< Str(S_Suggest1), Str(S_Suggest2), Str(S_Suggest3) >>))

NoRequest == [sent |-> FALSE, question |-> <<>>, scope |-> "", agent |-> "",
              strictCitations |-> FALSE, history |-> <<>>]

\* activeThreadId === null (the ids of the threads are 1, 2, ...)
NoThread == 0

\* lines 110-131: the state of the component when it is mounted
UiMounted ==
  /\ messages = << WelcomeMessage >>
  /\ currentSources = Arr(<<>>)
  /\ isLoading = FALSE
  /\ inputText = <<>>
  /\ activeAgent = "knowledge"
  /\ scope = "hybrid"
  /\ strictCitations = FALSE
  /\ request = NoRequest
  /\ threads = <<>>
  /\ activeThreadId = NoThread
  /\ clock = 0

----------------------------------------------------------------------------
(* Calls of the normalizer                                                 *)

NsCalls ==
  { [fn |-> "normalizeSource", arg |-> r, idx |-> i] : r \in RawPool, i \in 0..MaxIndex }
  \cup { [fn |-> "normalizeSources", arg |-> a, idx |-> 0] : a \in ArrPool }

NsNone    == [fn |-> "none", arg |-> Undefined, idx |-> 0]
NsPending == [done |-> FALSE, threw |-> FALSE, val |-> Undefined]
NsDone(r) == [done |-> TRUE, threw |-> r.threw, val |-> r.val]

RagNone    == [component |-> "none", role |-> "", scope |-> "", query |-> <<>>]
RagPending == [done |-> FALSE, docs |-> <<>>]

\* no direct call of the panel or of the search
RagIdle == panelRet = NsPending /\ ragCall = RagNone /\ ragRet = RagPending

InitNorm ==
  /\ nsCall \in NsCalls /\ nsRet = NsPending /\ mapRet = NsPending
  /\ RagIdle /\ TransportIdle /\ UiMounted

CallNormalizeSource ==
  /\ nsCall.fn = "normalizeSource" /\ ~nsRet.done
  /\ nsRet' = NsDone(normalizeSource(nsCall.arg, nsCall.idx))
  /\ UNCHANGED << nsCall, mapRet, ragVars, tVars, uiVars >>

CallNormalizeSources ==
  /\ nsCall.fn = "normalizeSources" /\ ~nsRet.done
  /\ nsRet' = NsDone(normalizeSources(nsCall.arg))
  /\ UNCHANGED << nsCall, mapRet, ragVars, tVars, uiVars >>

\* the sources normalizeSources returned, handed to mapBackendSourcesToCitations
CallMapBackendSourcesToCitations ==
  /\ nsCall.fn = "normalizeSources" /\ nsRet.done /\ ~nsRet.threw /\ ~mapRet.done
  /\ mapRet' = NsDone(mapBackendSourcesToCitations(nsRet.val))
  /\ UNCHANGED << nsCall, nsRet, ragVars, tVars, uiVars >>

\* the citations rendered by the sources panel (sources={currentSources})
RenderSourcesPanel ==
  /\ mapRet.done /\ ~mapRet.threw /\ ~panelRet.done
  /\ panelRet' = NsDone(PanelNormalized(mapRet.val))
  /\ UNCHANGED << nsCall, nsRet, mapRet, ragCall, ragRet, tVars, uiVars >>

NextNorm ==
  \/ CallNormalizeSource
  \/ CallNormalizeSources
  \/ CallMapBackendSourcesToCitations
  \/ RenderSourcesPanel

SpecNorm == InitNorm /\ [][NextNorm]_vars

----------------------------------------------------------------------------
(* Properties of the normalizer (checked under SpecNorm)                   *)

\* a finished call of normalizeSource that returned a value
NsReturned == nsCall.fn = "normalizeSource" /\ nsRet.done /\ ~nsRet.threw

Present(v) == v.t \notin {"undefined", "null"}

\* the access-level field of the raw source: the first of raw.accessLevel,
\* raw.access_level, raw.metadata.accessLevel, raw.metadata.access_level that
\* is neither null nor undefined (Undefined when there is none)
RawAccessField(raw) ==
  LET md == Get(raw, K_metadata)
  IN IF Present(Get(raw, K_accessLevel)) THEN Get(raw, K_accessLevel)
     ELSE IF Present(Get(raw, K_access_level)) THEN Get(raw, K_access_level)
     ELSE IF Present(Get(md, K_accessLevel)) THEN Get(md, K_accessLevel)
     ELSE IF Present(Get(md, K_access_level)) THEN Get(md, K_access_level)
     ELSE Undefined

ResultAccess == Get(nsRet.val, K_accessLevel)

\* C1: whenever normalizeSource returns, the result's accessLevel is "public"
\* if and only if the first present access-level candidate, converted to a
\* string and lower-cased, is exactly "public"; otherwise it is "internal".
C1_FailClosedAccess ==
  NsReturned =>
    LET f == RawAccessField(nsCall.arg)
        isPublic == Present(f) /\ ToLowerCase(JsString(f).s) = S_public
    IN /\ ResultAccess \in { Str(S_public), Str(S_internal) }
       /\ (ResultAccess = Str(S_public)) <=> isPublic

\* the case of C1: "public" taken from a candidate of lower priority
C1_Witness ==
  /\ NsReturned
  /\ ResultAccess = Str(S_public)
  /\ ~Present(Get(nsCall.arg, K_accessLevel))
  /\ ~Present(Get(nsCall.arg, K_access_level))

\* C2 as stated: the raw values "Public ", "PUBLIC", "unknown" and an absent
\* field each yield accessLevel "internal".
C2_Original ==
  NsReturned =>
    (RawAccessField(nsCall.arg) \in { Str(S_PublicSp), Str(S_PUBLIC), Str(S_unknown), Undefined }
       => ResultAccess = Str(S_internal))

\* C2 amended: accessLevel is "public" only when the raw access-level field
\* is, ignoring case, exactly "public"; "Public ", "unknown" and an absent field
\* yield "internal", and "PUBLIC" yields "public".
C2_CaseInsensitivePublic ==
  NsReturned =>
    LET f == RawAccessField(nsCall.arg)
    IN /\ ResultAccess = Str(S_public) => ToLowerCase(JsString(f).s) = S_public
       /\ f \in { Str(S_PublicSp), Str(S_unknown), Undefined } => ResultAccess = Str(S_internal)
       /\ f = Str(S_PUBLIC) => ResultAccess = Str(S_public)

C2_Witness ==
  NsReturned /\ RawAccessField(nsCall.arg) = Str(S_PUBLIC) /\ ResultAccess = Str(S_public)

CanonicalFields ==
  { K_id, K_title, K_section, K_source, K_accessLevel, K_snippet, K_fullText }

\* C3 as stated: normalizeSource returns without raising for every JSON value,
\* and in the result the six text fields are strings and accessLevel is
\* "public" or "internal".
C3_NeverRaises ==
  (nsCall.fn = "normalizeSource" /\ nsRet.done) =>
    /\ ~nsRet.threw
    /\ \A k \in CanonicalFields : Get(nsRet.val, k).t = "string"
    /\ ResultAccess \in { Str(S_public), Str(S_internal) }

\* C4 as stated: no two entries of one normalizeSources result share an id.
C4_UniqueIds ==
  (nsCall.fn = "normalizeSources" /\ nsRet.done /\ ~nsRet.threw) =>
    \A i, j \in 1..Len(nsRet.val.kv) :
      i # j => Get(nsRet.val.kv[i].v, K_id) # Get(nsRet.val.kv[j].v, K_id)

\* h = h*31 + charCode with 32-bit wraparound, over input[from..to]
Times31Plus(h, c) ==
  LET lo == 31 * h.lo + c
  IN I32((31 * h.hi + (lo \div Half)) % Half, lo % Half)

RECURSIVE Hash31(_, _, _, _)
Hash31(h, input, from, to) ==
  IF h.hi < 0 \/ from > to THEN h
  ELSE IF from = to THEN Times31Plus(h, CharCode(input[from]))
  ELSE LET mid == (from + to) \div 2
       IN Hash31(Hash31(h, input, from, mid), input, mid + 1, to)

\* the raw id is absent, null, empty or only white space
IdMissing(raw) ==
  LET i == Get(raw, K_id)
  IN ~Present(i) \/ (i.t = "string" /\ \A n \in 1..Len(i.s) : i.s[n] \in WhiteSpace)

\* C5: for a raw source object without id, normalizeSource yields the non-empty
\* id "src-<index>-<n>", n the absolute value of the hash h = h*31 + charCode
\* (32-bit wraparound) of the serialized raw object; the id is a function of
\* the raw object and the index alone.
C5_SyntheticId ==
  (NsReturned /\ nsCall.arg.t = "object" /\ IdMissing(nsCall.arg)) =>
    LET text == Stringify(nsCall.arg)
        h    == Hash31(Zero32, text, 1, Len(text))
        n    == IF h.hi >= 32768 THEN Neg32(h) ELSE h
        id   == Get(nsRet.val, K_id)
    IN /\ id.t = "string" /\ id.s # <<>>
       /\ id.s = <<"s","r","c","-">> \o NatDigits(nsCall.idx) \o <<"-">> \o Digits32(n)

\* the case of C5: a blank id, at a non-zero index, whose hash is negative
C5_Witness ==
  /\ NsReturned /\ nsCall.arg.t = "object" /\ nsCall.idx > 0
  /\ Get(nsCall.arg, K_id) = Str(S_blank)
  /\ IsNeg32(hashString(Stringify(nsCall.arg)))

\* all seven canonical fields are present and are strings
FullyPopulated(raw) ==
  raw.t = "object" /\ \A k \in CanonicalFields : Get(raw, k).t = "string"

FieldsIdentical(raw, result) ==
  \A k \in CanonicalFields : Get(result, k) = Get(raw, k)

\* C6 as stated: a raw source with all seven canonical fields populated is
\* returned with each of the seven values identical to the raw value.
C6_Original ==
  (NsReturned /\ FullyPopulated(nsCall.arg)) => FieldsIdentical(nsCall.arg, nsRet.val)

\* a string that String.prototype.trim leaves as it is
IsTrimmed(s) == s = <<>> \/ (s[1] \notin WhiteSpace /\ s[Len(s)] \notin WhiteSpace)

\* the raw values are already in normal form: id non-empty, the six text fields
\* without leading or trailing white space, accessLevel "public" or "internal"
InNormalForm(raw) ==
  /\ FullyPopulated(raw)
  /\ Get(raw, K_id).s # <<>>
  /\ \A k \in CanonicalFields \ { K_accessLevel } : IsTrimmed(Get(raw, k).s)
  /\ Get(raw, K_accessLevel).s \in { S_public, S_internal }

\* C6 amended: a raw source whose seven canonical fields are strings, with a
\* non-empty id, no leading or trailing white space in id, title, section,
\* source, snippet and fullText, and accessLevel exactly "public" or
\* "internal", is returned with each of the seven values identical.
C6_RoundTrip ==
  (NsReturned /\ InNormalForm(nsCall.arg)) => FieldsIdentical(nsCall.arg, nsRet.val)

C6_Witness ==
  /\ NsReturned /\ InNormalForm(nsCall.arg)
  /\ Get(nsCall.arg, K_accessLevel) = Str(S_public)
  /\ Get(nsCall.arg, K_section) = Str(S_empty)

----------------------------------------------------------------------------
(* Transport client: property names and literals                           *)

K_detail == <<"d","e","t","a","i","l">>
K_answer == <<"a","n","s","w","e","r">>
K_sources == <<"s","o","u","r","c","e","s">>
K_follow_up_questions == <<"f","o","l","l","o","w","_","u","p","_","q","u","e","s","t","i","o","n","s">>
K_follow_ups == <<"f","o","l","l","o","w","_","u","p","s">>
K_chat_session_id == <<"c","h","a","t","_","s","e","s","s","i","o","n","_","i","d">>
K_chat_session_title == <<"c","h","a","t","_","s","e","s","s","i","o","n","_","t","i","t","l","e">>
K_preview == <<"p","r","e","v","i","e","w">>
K_updated_at == <<"u","p","d","a","t","e","d","_","a","t">>
K_role == <<"r","o","l","e">>
K_content == <<"c","o","n","t","e","n","t">>
K_created_at == <<"c","r","e","a","t","e","d","_","a","t">>
K_results == <<"r","e","s","u","l","t","s">>
K_link == <<"l","i","n","k">>

S_NewChat   == <<"N","e","w"," ","c","h","a","t">>
S_assistant == <<"a","s","s","i","s","t","a","n","t">>
S_user      == <<"u","s","e","r">>
S_HTTP      == <<"H","T","T","P"," ">>

----------------------------------------------------------------------------
(* Response body (Fetch): json() and text() consume the body               *)

\* reading the body: refused once the body has been used, failing on a broken
\* stream; a Response without body reads as empty and is never marked used
ReadAll(r) ==
  IF r.kind = "none" THEN [ok |-> TRUE, res |-> r]
  ELSE IF r.bodyUsed THEN [ok |-> FALSE, res |-> r]
  ELSE [ok |-> r.kind # "broken", res |-> [r EXCEPT !.bodyUsed = TRUE]]

\* await res.json(): the parsed value, or a rejection
ResJson(r) ==
  LET rd == ReadAll(r)
  IN [ok |-> rd.ok /\ r.kind = "json", val |-> IF rd.ok /\ r.kind = "json" THEN r.val ELSE Undefined,
      res |-> rd.res]

\* await res.text(): the text of the body, or a rejection
ResText(r) ==
  LET rd == ReadAll(r)
  IN [ok |-> rd.ok,
      text |-> IF ~rd.ok THEN <<>>
               ELSE IF r.kind = "json" THEN Stringify(r.val)
               ELSE IF r.kind = "text" THEN r.text ELSE <<>>,
      res |-> rd.res]

----------------------------------------------------------------------------
(* parseError                                                              *)

\* faulty variant: the detail field ignored
ErrorMessage_WholeBody(j) == Stringify(j)

\* lines 100-101: the message built from the parsed body j
ErrorMessage(j) ==
  LET detail == Get(j, K_detail)
  IN IF Truthy(detail)
     THEN IF detail.t = "string" THEN detail.s ELSE Stringify(detail)
     ELSE Stringify(j)

\* which step of lines 100-101 produced the message
MessageStep(j) == IF Truthy(Get(j, K_detail)) THEN "detail" ELSE "serialize"

\* line 106
GenericMessage(status) == S_HTTP \o NatDigits(status)

\* faulty variant: the catch block entered whatever res.json() gave
AfterJson_Always(parsed) == "parseErrorText"

\* where parseError goes after res.json() settled: the catch block only when
\* it rejected
AfterJson(parsed) == IF parsed THEN "done" ELSE "parseErrorText"

Step(name, ok) == [step |-> name, ok |-> ok]

Rejected(err, msg) == [kind |-> "rejected", val |-> Undefined, err |-> err, msg |-> msg]
Resolved(v)        == [kind |-> "resolved", val |-> v, err |-> "", msg |-> <<>>]

\* messages of errors the runtime raises (their wording is the engine's)
M_FetchFailed == <<"F","a","i","l","e","d"," ","t","o"," ","f","e","t","c","h">>
M_NotJson     == <<"U","n","e","x","p","e","c","t","e","d"," ","t","o","k","e","n">>
M_NoPrimitive == <<"C","a","n","n","o","t"," ","c","o","n","v","e","r","t"," ","o","b","j","e","c","t">>

----------------------------------------------------------------------------
(* Results of the four operations on a parsed success body                 *)

\* xs.map((x) => String(x))
RECURSIVE MapString(_, _)
MapString(kv, i) ==
  IF i > Len(kv) THEN Returned(Arr(<<>>))
  ELSE LET one  == JsString(kv[i].v)
           rest == MapString(kv, i + 1)
       IN IF one.threw \/ rest.threw THEN Raised
          ELSE Returned(JV("array", <<>>, 0, << KV(<<>>, Str(one.s)) >> \o rest.val.kv))

\* String(v ?? dflt)
StringOr(v, dflt) ==
  LET c == JsString(Coalesce(<< v, Str(dflt) >>))
  IN IF c.threw THEN Raised ELSE Returned(Str(c.s))

\* v ? String(v) : otherwise
StringIfTruthy(v, otherwise) ==
  IF ~Truthy(v) THEN Returned(otherwise)
  ELSE LET c == JsString(v) IN IF c.threw THEN Raised ELSE Returned(Str(c.s))

\* an object literal whose property values may have raised
Build(keys, parts) ==
  IF \E i \in 1..Len(parts) : parts[i].threw THEN Raised
  ELSE Returned(Obj([i \in 1..Len(keys) |-> KV(keys[i], parts[i].val)]))

\* AskResult with the two keys of the follow-up questions tried in the other order
AskResult_AlternateFirst(data) ==
  LET fq == Get(data, K_follow_up_questions)
      fu == Get(data, K_follow_ups)
  IN Build(<< K_answer, K_sources, K_follow_up_questions, K_chat_session_id,
              K_chat_session_title >>,
           << StringOr(Get(data, K_answer), S_empty),
              normalizeSources(Get(data, K_sources)),
              IF IsArray(fu) THEN MapString(fu.kv, 1)
              ELSE IF IsArray(fq) THEN MapString(fq.kv, 1)
              ELSE Returned(Arr(<<>>)),
              StringIfTruthy(Get(data, K_chat_session_id), Undefined),
              StringIfTruthy(Get(data, K_chat_session_title), Undefined) >>)

\* lines 149-159
AskResult(data) ==
  LET fq == Get(data, K_follow_up_questions)
      fu == Get(data, K_follow_ups)
  IN Build(<< K_answer, K_sources, K_follow_up_questions, K_chat_session_id,
              K_chat_session_title >>,
           << StringOr(Get(data, K_answer), S_empty),
              normalizeSources(Get(data, K_sources)),
              IF IsArray(fq) THEN MapString(fq.kv, 1)
              ELSE IF IsArray(fu) THEN MapString(fu.kv, 1)
              ELSE Returned(Arr(<<>>)),
              StringIfTruthy(Get(data, K_chat_session_id), Undefined),
              StringIfTruthy(Get(data, K_chat_session_title), Undefined) >>)

\* faulty variant: a session without a title gets the empty title
SessionOf_Untitled(s) ==
  Build(<< K_id, K_title, K_preview, K_updated_at >>,
        << StringOr(Get(s, K_id), S_empty),
           StringOr(Get(s, K_title), S_empty),
           StringOr(Get(s, K_preview), S_empty),
           StringIfTruthy(Get(s, K_updated_at), Null) >>)

\* lines 168-173, one element
SessionOf(s) ==
  Build(<< K_id, K_title, K_preview, K_updated_at >>,
        << StringOr(Get(s, K_id), S_empty),
           StringOr(Get(s, K_title), S_NewChat),
           StringOr(Get(s, K_preview), S_empty),
           StringIfTruthy(Get(s, K_updated_at), Null) >>)

\* faulty variant: the role compared without regard to case
MessageOf_CaseInsensitive(m) ==
  Build(<< K_id, K_role, K_content, K_created_at >>,
        << StringOr(Get(m, K_id), S_empty),
           Returned(Str(IF Get(m, K_role).t = "string"
                           /\ ToLowerCase(Get(m, K_role).s) = S_assistant
                        THEN S_assistant ELSE S_user)),
           StringOr(Get(m, K_content), S_empty),
           StringIfTruthy(Get(m, K_created_at), Null) >>)

\* lines 182-187, one element
MessageOf(m) ==
  Build(<< K_id, K_role, K_content, K_created_at >>,
        << StringOr(Get(m, K_id), S_empty),
           Returned(Str(IF Get(m, K_role) = Str(S_assistant) THEN S_assistant ELSE S_user)),
           StringOr(Get(m, K_content), S_empty),
           StringIfTruthy(Get(m, K_created_at), Null) >>)

RECURSIVE MapSessions(_, _)
MapSessions(kv, i) ==
  IF i > Len(kv) THEN Returned(Arr(<<>>))
  ELSE LET one  == SessionOf(kv[i].v)
           rest == MapSessions(kv, i + 1)
       IN IF one.threw \/ rest.threw THEN Raised
          ELSE Returned(JV("array", <<>>, 0, << KV(<<>>, one.val) >> \o rest.val.kv))

RECURSIVE MapMessages(_, _)
MapMessages(kv, i) ==
  IF i > Len(kv) THEN Returned(Arr(<<>>))
  ELSE LET one  == MessageOf(kv[i].v)
           rest == MapMessages(kv, i + 1)
       IN IF one.threw \/ rest.threw THEN Raised
          ELSE Returned(JV("array", <<>>, 0, << KV(<<>>, one.val) >> \o rest.val.kv))

\* lines 167-173
SessionsResult(data) ==
  IF ~IsArray(data) THEN Returned(Arr(<<>>)) ELSE MapSessions(data.kv, 1)

\* lines 181-187
MessagesResult(data) ==
  IF ~IsArray(data) THEN Returned(Arr(<<>>)) ELSE MapMessages(data.kv, 1)

\* line 218
WebSearchResultOf(data) ==
  Returned(IF IsArray(data) THEN data ELSE Coalesce(<< Get(data, K_results), Arr(<<>>) >>))

Operations == { "askKnowledgeAgent", "listChatSessions", "getChatSessionMessages", "webSearch" }

ResultOf(o, data) ==
  CASE o = "askKnowledgeAgent"      -> AskResult(data)
    [] o = "listChatSessions"       -> SessionsResult(data)
    [] o = "getChatSessionMessages" -> MessagesResult(data)
    [] o = "webSearch"              -> WebSearchResultOf(data)

----------------------------------------------------------------------------
(* Inputs: the responses a backend can give                                *)

S_X         == <<"X">>
S_A         == <<"A">>
S_B         == <<"B">>
S_badScope  == <<"b","a","d"," ","s","c","o","p","e">>
S_oops      == <<"o","o","p","s">>
S_Assistant == <<"A","s","s","i","s","t","a","n","t">>
S_when      == <<"2","0","2","4","-","0","1","-","0","1">>

\* bodies shaped like the answer of /api/chat
AskBodies ==
  { Obj(<< KV(K_answer, Str(S_X)), KV(K_sources, Arr(<<>>)),
           KV(K_follow_ups, Arr(<< Str(S_A), Str(S_B) >>)) >>),
    Obj(<< KV(K_answer, Str(S_X)),
           KV(K_sources, Arr(<< Obj(<<>>), Obj(<< KV(K_id, Str(S_a)), KV(K_access_level, Str(S_PUBLIC)) >>) >>)),
           KV(K_follow_up_questions, Arr(<< Str(S_B), Num(7), Null >>)),
           KV(K_follow_ups, Arr(<< Str(S_A) >>)),
           KV(K_chat_session_id, Num(7)), KV(K_chat_session_title, Str(S_T)) >>),
    Obj(<< KV(K_answer, Num(5)), KV(K_sources, Obj(<<>>)),
           KV(K_follow_up_questions, Str(S_A)), KV(K_follow_ups, Arr(<< Str(S_B), Num(7) >>)),
           KV(K_chat_session_id, Str(S_empty)) >>),
    Obj(<< KV(K_answer, Null), KV(K_sources, Null), KV(K_chat_session_id, Arr(<<>>)) >>),
    Obj(<< KV(K_answer, ToStringObj) >>),
    Obj(<< KV(K_sources, Arr(<< Obj(<< KV(K_title, ToStringObj) >>) >>)) >>),
    Obj(<< KV(K_follow_ups, Arr(<< Str(S_A), ToStringObj >>)) >>),
    Obj(<< KV(K_chat_session_title, ToStringObj) >>) }

\* bodies shaped like session lists and transcripts
ListBodies ==
  { Arr(<<>>),
    Arr(<< Obj(<<>>) >>),
    Arr(<< Obj(<< KV(K_id, Str(S_a)), KV(K_title, Str(S_T)), KV(K_preview, Str(S_snip)),
                  KV(K_updated_at, Str(S_when)) >>),
           Obj(<< KV(K_id, Num(7)), KV(K_title, Null), KV(K_updated_at, Num(0)),
                  KV(K_role, Arr(<< Str(S_assistant) >>)) >>) >>),
    Arr(<< Obj(<< KV(K_id, Str(S_a)), KV(K_role, Str(S_assistant)), KV(K_content, Str(S_X)),
                  KV(K_created_at, Str(S_when)) >>),
           Obj(<< KV(K_role, Str(S_Assistant)), KV(K_content, Num(5)) >>),
           Obj(<< KV(K_role, Null) >>) >>),
    Arr(<< Null, Num(5), Str(S_a) >>),
    Arr(<< Obj(<< KV(K_id, ToStringObj) >>) >>),
    Arr(<< Obj(<< KV(K_content, Arr(<< ToStringObj >>)) >>) >>),
    Arr(<< Obj(<< KV(K_updated_at, ToStringObj), KV(K_created_at, ToStringObj) >>) >>) }

\* bodies shaped like the answer of /api/websearch
WebBodies ==
  { Arr(<< Obj(<< KV(K_title, Str(S_T)), KV(K_link, Str(S_url)) >>) >>),
    Obj(<< KV(K_results, Arr(<< Obj(<< KV(K_title, Str(S_T)), KV(K_link, Str(S_url)),
                                       KV(K_snippet, Str(S_snip)) >>) >>)) >>),
    Obj(<< KV(K_results, Arr(<<>>)) >>),
    Obj(<< KV(K_results, Str(S_X)) >>),
    Obj(<< KV(K_results, Null) >>),
    Obj(<< KV(K_results, Num(0)) >>) }

\* bodies shaped like error reports
ErrorBodies ==
  { Obj(<< KV(K_detail, Str(S_badScope)) >>),
    Obj(<< KV(K_detail, Obj(<< KV(K_title, Str(S_X)) >>)), KV(K_answer, Str(S_A)) >>),
    Obj(<< KV(K_detail, Arr(<< Str(S_A), Num(7) >>)) >>),
    Obj(<< KV(K_detail, Num(5)) >>),
    Obj(<< KV(K_detail, Bool(TRUE)) >>),
    Obj(<< KV(K_detail, Str(S_empty)), KV(K_title, Str(S_T)) >>),
    Obj(<< KV(K_detail, Num(0)) >>),
    Obj(<< KV(K_detail, Null) >>),
    Obj(<< KV(K_detail, Bool(FALSE)) >>),
    Obj(<< KV(K_title, Str(S_X)) >>) }

ScalarBodies == { Obj(<<>>), Null, Num(5), Str(S_oops), Bool(TRUE) }

BodyVals == AskBodies \cup ListBodies \cup WebBodies \cup ErrorBodies \cup ScalarBodies

OkStatus    == { 200 }
ErrorStatus == { 404, 500 }

Responses ==
  { Response(st \in OkStatus, st, "json", v, <<>>) : v \in BodyVals, st \in OkStatus \cup ErrorStatus }
  \cup { Response(st \in OkStatus, st, "text", Undefined, S_oops) : st \in OkStatus \cup ErrorStatus }
  \cup { Response(st \in OkStatus, st, "broken", Undefined, <<>>) : st \in OkStatus \cup ErrorStatus }
  \cup { Response(TRUE, 204, "none", Undefined, <<>>),
         Response(FALSE, 304, "none", Undefined, <<>>) }

----------------------------------------------------------------------------
(* The transport operations, step by step                                  *)

Init ==
  /\ nsCall = NsNone /\ nsRet = NsPending /\ mapRet = NsPending
  /\ RagIdle /\ TransportIdle /\ UiMounted

\* a caller starts one of the operations: fetch is issued
StartCall(o) ==
  /\ pc = "idle"
  /\ op' = o
  /\ pc' = "fetch"
  /\ UNCHANGED << res, steps, outcome >>

Start(o) == StartCall(o) /\ UNCHANGED << nsVars, uiVars >>

\* await fetch(...) resolves with a response: line 143 / 165 / 179 / 216
FetchResolves(r) ==
  /\ pc = "fetch"
  /\ res' = r
  /\ pc' = IF r.ok THEN "body" ELSE "parseError"
  /\ UNCHANGED << op, steps, outcome, nsVars, uiVars >>

\* await fetch(...) rejects (network failure): the operation rejects with it
FetchRejects ==
  /\ pc = "fetch"
  /\ outcome' = Rejected("TypeError", M_FetchFailed)
  /\ pc' = "done"
  /\ UNCHANGED << op, res, steps, nsVars, uiVars >>

\* parseError, lines 98-102: res.json(), then the message from the parsed body
ParseErrorJson ==
  /\ pc = "parseError"
  /\ LET r == ResJson(res)
     IN /\ res' = r.res
        /\ pc' = AfterJson(r.ok)
        /\ steps' = IF r.ok
                    THEN << Step("json", TRUE), Step(MessageStep(r.val), TRUE) >>
                    ELSE << Step("json", FALSE) >>
        /\ outcome' = IF r.ok THEN Rejected("Error", ErrorMessage(r.val)) ELSE outcome
  /\ UNCHANGED << op, nsVars, uiVars >>

\* parseError, lines 103-107: res.text(), else the status message
ParseErrorText ==
  /\ pc = "parseErrorText"
  /\ LET r == ResText(res)
     IN /\ res' = r.res
        /\ steps' = IF r.ok
                    THEN Append(steps, Step("text", TRUE))
                    ELSE steps \o << Step("text", FALSE), Step("generic", TRUE) >>
        /\ outcome' = Rejected("Error", IF r.ok THEN r.text ELSE GenericMessage(res.status))
  /\ pc' = "done"
  /\ UNCHANGED << op, nsVars, uiVars >>

\* the success path: await res.json(), then the result of the operation
ReadBody ==
  /\ pc = "body"
  /\ LET r   == ResJson(res)
         out == ResultOf(op, r.val)
     IN /\ res' = r.res
        /\ outcome' = IF ~r.ok THEN Rejected("SyntaxError", M_NotJson)
                      ELSE IF out.threw THEN Rejected("TypeError", M_NoPrimitive)
                      ELSE Resolved(out.val)
  /\ pc' = "done"
  /\ UNCHANGED << op, steps, nsVars, uiVars >>

\* the promise has settled; the next call starts afresh
Settle ==
  /\ pc = "done"
  /\ op' = "none" /\ pc' = "idle" /\ res' = NoResponse
  /\ steps' = <<>> /\ outcome' = NoOutcome

Finish == Settle /\ UNCHANGED << nsVars, uiVars >>

Next ==
  \/ \E o \in Operations : Start(o)
  \/ \E r \in Responses : FetchResolves(r)
  \/ FetchRejects
  \/ ParseErrorJson
  \/ ParseErrorText
  \/ ReadBody
  \/ Finish

Spec == Init /\ [][Next]_vars

----------------------------------------------------------------------------
(* Properties of the transport client (checked under Spec)                 *)

\* the operation has settled after a non-success response
FailedCall == pc = "done" /\ outcome.kind # "pending" /\ res.status # 0 /\ ~res.ok

\* C7 as stated: a non-success response whose body is a text that is not JSON
\* makes the operation reject with that text as the message.
C7_RawTextMessage ==
  (FailedCall /\ res.kind = "text") =>
    (outcome.kind = "rejected" /\ outcome.msg = res.text)

\* C8: a non-success response with a JSON body makes the operation reject with
\* the detail itself when detail is a non-empty string, with the serialized
\* detail when it is truthy and not a string, and with the serialized body
\* when there is no truthy detail; {"detail":"bad scope"} gives "bad scope".
C8_DetailMessage ==
  (FailedCall /\ res.kind = "json") =>
    LET d == Get(res.val, K_detail)
    IN /\ outcome.kind = "rejected"
       /\ (d.t = "string" /\ d.s # <<>>) => outcome.msg = d.s
       /\ (d.t \in {"object", "array"}) => outcome.msg = Stringify(d)
       /\ (d.t = "number" /\ d.n # 0) => outcome.msg = IntToString(d.n)
       /\ (d = Bool(TRUE)) => outcome.msg = <<"t","r","u","e">>
       /\ (d \in { Undefined, Null, Str(<<>>), Num(0), Bool(FALSE) })
            => outcome.msg = Stringify(res.val)
       /\ (res.val = Obj(<< KV(K_detail, Str(S_badScope)) >>)) => outcome.msg = S_badScope

\* the case of C8: a detail that is not a string
C8_Witness ==
  /\ FailedCall /\ res.kind = "json"
  /\ Get(res.val, K_detail).t = "array"
  /\ outcome.msg = Stringify(Get(res.val, K_detail))

Attempted(name) == \E i \in 1..Len(steps) : steps[i].step = name
Failed(name)    == \E i \in 1..Len(steps) : steps[i] = Step(name, FALSE)
Succeeded(name) == \E i \in 1..Len(steps) : steps[i] = Step(name, TRUE)

\* rank of a step in the chain
ChainRank(name) ==
  CASE name = "json" -> 1
    [] name \in {"detail", "serialize"} -> 2
    [] name = "text" -> 3
    [] name = "generic" -> 4

\* C9: within one call of parseError the steps are taken in chain order; the
\* raw text is read only after the structured parse failed, never after it
\* succeeded, and the generic "HTTP <status>" message is produced only after
\* both the structured parse and the raw-text read failed.
C9_SequentialFallback ==
  /\ \A i, j \in 1..Len(steps) : i < j => ChainRank(steps[i].step) < ChainRank(steps[j].step)
  /\ steps # <<>> => steps[1].step = "json"
  /\ Attempted("text") => Failed("json")
  /\ Succeeded("json") => ~Attempted("text") /\ ~Attempted("generic")
  /\ Attempted("generic") => Failed("json") /\ Failed("text")
  /\ (FailedCall /\ outcome.msg = GenericMessage(res.status))
       => (res.kind # "json" /\ Failed("text"))
  /\ pc = "parseErrorText" => steps = << Step("json", FALSE) >>

\* the case of C9: the whole chain down to the generic message
C9_Witness ==
  /\ FailedCall
  /\ steps = << Step("json", FALSE), Step("text", FALSE), Step("generic", TRUE) >>
  /\ outcome.msg = GenericMessage(res.status)

IsStr(v) == v.t = "string"
AllElems(v, P(_)) == v.t = "array" /\ \A i \in 1..Len(v.kv) : P(v.kv[i].v)

IsSource(v) ==
  /\ v.t = "object"
  /\ \A k \in CanonicalFields : IsStr(Get(v, k))
  /\ Get(v, K_accessLevel) \in { Str(S_public), Str(S_internal) }

IsChatSession(v) ==
  /\ v.t = "object"
  /\ IsStr(Get(v, K_id)) /\ IsStr(Get(v, K_title)) /\ IsStr(Get(v, K_preview))
  /\ Get(v, K_updated_at).t \in {"string", "null"}

IsChatMessage(v) ==
  /\ v.t = "object"
  /\ IsStr(Get(v, K_id)) /\ IsStr(Get(v, K_content))
  /\ Get(v, K_role) \in { Str(S_user), Str(S_assistant) }
  /\ Get(v, K_created_at).t \in {"string", "null"}

IsWebSearchResult(v) ==
  v.t = "object" /\ IsStr(Get(v, K_title)) /\ IsStr(Get(v, K_link))

IsChatResponse(v) ==
  /\ v.t = "object"
  /\ IsStr(Get(v, K_answer))
  /\ AllElems(Get(v, K_sources), IsSource)
  /\ AllElems(Get(v, K_follow_up_questions), IsStr)
  /\ Get(v, K_chat_session_id).t \in {"string", "undefined"}
  /\ Get(v, K_chat_session_title).t \in {"string", "undefined"}

\* the result has the type the operation declares
HasDeclaredType(o, v) ==
  CASE o = "askKnowledgeAgent"      -> IsChatResponse(v)
    [] o = "listChatSessions"       -> AllElems(v, IsChatSession)
    [] o = "getChatSessionMessages" -> AllElems(v, IsChatMessage)
    [] o = "webSearch"              -> AllElems(v, IsWebSearchResult)

\* C10 as stated: every operation either resolves with a result in which every
\* field has its declared type or rejects with an error carrying a message,
\* and a success response with a JSON payload of any shape never rejects.
C10_ResolveOrReject ==
  (pc = "done" /\ outcome.kind # "pending") =>
    /\ \/ outcome.kind = "resolved" /\ HasDeclaredType(op, outcome.val)
       \/ outcome.kind = "rejected" /\ outcome.msg # <<>>
    /\ (res.ok /\ res.kind = "json") => outcome.kind = "resolved"

\* the operation op has settled after a success response with a JSON body
SucceededCall(o) ==
  pc = "done" /\ op = o /\ outcome.kind # "pending" /\ res.ok /\ res.kind = "json"

\* C11 as stated: webSearch on a success response returns the body when it is
\* an array, the results field when the body is an object whose results field
\* is an array, and the empty sequence for anything else.
C11_WebSearchSequence ==
  SucceededCall("webSearch") =>
    /\ outcome.kind = "resolved"
    /\ outcome.val =
         (IF res.val.t = "array" THEN res.val
          ELSE IF res.val.t = "object" /\ Get(res.val, K_results).t = "array"
               THEN Get(res.val, K_results)
          ELSE Arr(<<>>))


----------------------------------------------------------------------------
(* Properties of the citations                                             *)

\* mapBackendSourcesToCitations has returned the citations of the sources that
\* normalizeSources returned
MapReturned == mapRet.done /\ ~mapRet.threw

\* C12 as stated: the Citation of every normalized Source carries the normalized
\* id, title, source, section, accessLevel, snippet and fullText of that Source.
C12_PureRename ==
  MapReturned =>
    /\ Len(mapRet.val.kv) = Len(nsRet.val.kv)
    /\ \A i \in 1..Len(mapRet.val.kv) :
         \A k \in CanonicalFields :
           Get(mapRet.val.kv[i].v, k) = Get(nsRet.val.kv[i].v, k)


\* askKnowledgeAgent has resolved on a success response with a JSON body
AskResolved == SucceededCall("askKnowledgeAgent") /\ outcome.kind = "resolved"

\* the elements of the array v, each through String(), in the order of v
IsStringsOf(r, v) ==
  /\ IsArray(r) /\ Len(r.kv) = Len(v.kv)
  /\ \A i \in 1..Len(v.kv) :
       /\ ~JsString(v.kv[i].v).threw
       /\ r.kv[i].v = Str(JsString(v.kv[i].v).s)

\* the empty sequence for a value that is not an array, IsStringsOf otherwise
IsSequenceOf(r, v) == IF IsArray(v) THEN IsStringsOf(r, v) ELSE r = Arr(<<>>)

\* C13 as stated: follow_up_questions of the result is taken from the key
\* follow_up_questions of the body whenever the body has that key, from
\* follow_ups when the body has only that key, and is empty when it has neither.
C13_Original ==
  AskResolved =>
    LET r == Get(outcome.val, K_follow_up_questions)
    IN IF HasOwn(res.val, K_follow_up_questions)
         THEN IsSequenceOf(r, Get(res.val, K_follow_up_questions))
       ELSE IF HasOwn(res.val, K_follow_ups)
         THEN IsSequenceOf(r, Get(res.val, K_follow_ups))
       ELSE r = Arr(<<>>)

\* C13: follow_up_questions of the result is the body's follow_up_questions,
\* element by element through String(), when that value is an array; otherwise
\* the body's follow_ups, likewise, when that value is an array; otherwise the
\* empty sequence.  The order of the elements is kept.
C13_FollowUps ==
  AskResolved =>
    LET r  == Get(outcome.val, K_follow_up_questions)
        fq == Get(res.val, K_follow_up_questions)
        fu == Get(res.val, K_follow_ups)
    IN IF IsArray(fq) THEN IsStringsOf(r, fq)
       ELSE IF IsArray(fu) THEN IsStringsOf(r, fu)
       ELSE r = Arr(<<>>)

\* the primary key holds a string, so the alternate key is used: ["B", "7"]
C13_Witness ==
  /\ AskResolved
  /\ HasOwn(res.val, K_follow_up_questions)
  /\ ~IsArray(Get(res.val, K_follow_up_questions))
  /\ Get(outcome.val, K_follow_up_questions) = Arr(<< Str(S_B), Str(<< "7" >>) >>)


----------------------------------------------------------------------------
(* Properties of normalizeSources                                          *)

\* a direct call of normalizeSources has ended
SourcesCalled == nsCall.fn = "normalizeSources" /\ nsRet.done

\* C14: normalizeSources returns the empty sequence for every input that is not
\* an array; for an array it returns a sequence of the same length whose i-th
\* element is normalizeSource(input[i], i), in the order of the input (and it
\* raises exactly when normalizeSource raises on one of the elements).
C14_ElementWise ==
  SourcesCalled =>
    LET arr == nsCall.arg
    IN IF ~IsArray(arr) THEN ~nsRet.threw /\ nsRet.val = Arr(<<>>)
       ELSE IF \E i \in 1..Len(arr.kv) : normalizeSource(arr.kv[i].v, i - 1).threw
         THEN nsRet.threw
       ELSE /\ ~nsRet.threw
            /\ IsArray(nsRet.val)
            /\ Len(nsRet.val.kv) = Len(arr.kv)
            /\ \A i \in 1..Len(arr.kv) :
                 nsRet.val.kv[i].v = normalizeSource(arr.kv[i].v, i - 1).val

\* two elements without an id: the results differ by their index only
C14_Witness ==
  /\ SourcesCalled /\ ~nsRet.threw
  /\ nsCall.arg = Arr(<< Obj(<<>>), Obj(<<>>) >>)
  /\ Len(nsRet.val.kv) = 2
  /\ Get(nsRet.val.kv[1].v, K_id) # Get(nsRet.val.kv[2].v, K_id)


\* the prefix of the string value v is p, and v is longer than p
StartsWith(v, p) ==
  v.t = "string" /\ Len(v.s) > Len(p) /\ SubSeq(v.s, 1, Len(p)) = p

\* C15: normalizeSources([{}]) yields exactly one entry, with title "Source",
\* section "", source "", accessLevel "internal", snippet "", fullText "" and
\* an id that starts with "src-0-" and goes on after it.
C15_EmptyObjectDefaults ==
  (SourcesCalled /\ nsCall.arg = Arr(<< Obj(<<>>) >>)) =>
    /\ ~nsRet.threw
    /\ Len(nsRet.val.kv) = 1
    /\ LET e == nsRet.val.kv[1].v
       IN /\ Get(e, K_title) = Str(S_Source)
          /\ Get(e, K_section) = Str(S_empty)
          /\ Get(e, K_source) = Str(S_empty)
          /\ Get(e, K_accessLevel) = Str(S_internal)
          /\ Get(e, K_snippet) = Str(S_empty)
          /\ Get(e, K_fullText) = Str(S_empty)
          /\ StartsWith(Get(e, K_id), S_srcDash \o << "0", "-" >>)

\* the call normalizeSources([{}]) has returned: the id is "src-0-3938"
C15_Witness ==
  /\ SourcesCalled /\ nsCall.arg = Arr(<< Obj(<<>>) >>) /\ ~nsRet.threw
  /\ Get(nsRet.val.kv[1].v, K_id) = Str(S_srcDash \o << "0", "-", "3", "9", "3", "8" >>)


----------------------------------------------------------------------------
(* Properties of the fields of a normalized source                         *)

\* the trimmed text of the first candidate that is neither null nor undefined
TextOf(cands) == Trim(JsString(Coalesce(cands)).s)

\* the value lines 58-69 compute for the canonical field k of the raw source s
NormalizedField(s, idx, k) ==
  CASE k = K_id -> Str(IF TextOf(IdCands(s)) # <<>> THEN TextOf(IdCands(s))
                       ELSE SyntheticId(s, idx))
    [] k = K_title -> Str(TextOf(TitleCands(s)))
    [] k = K_section -> Str(TextOf(SectionCands(s)))
    [] k = K_source -> Str(TextOf(SourceCands(s)))
    [] k = K_accessLevel ->
         Str(IF ToLowerCase(JsString(Coalesce(AccessCands(s))).s) = S_public
             THEN S_public ELSE S_internal)
    [] k = K_snippet -> Str(TextOf(SnippetCands(s)))
    [] k = K_fullText -> Str(TextOf(FullTextCands(s, TextOf(SnippetCands(s)))))

\* the properties of the object o named key
PropsNamed(o, key) == { i \in 1..Len(o.kv) : o.kv[i].k = key }

\* C16: the result of normalizeSource has every property of the raw input whose
\* name is not one of the seven normalized names, with the raw value, and under
\* each of the seven normalized names it has exactly one property, which holds
\* the normalized value whatever the raw input stored under that name.
C16_ExtrasKeptFieldsNormalized ==
  NsReturned =>
    LET raw == SpreadOf(nsCall.arg)
        out == nsRet.val
    IN /\ out.t = "object"
       /\ \A i \in 1..Len(raw) :
            raw[i].k \notin CanonicalFields =>
              HasOwn(out, raw[i].k) /\ Get(out, raw[i].k) = raw[i].v
       /\ \A k \in CanonicalFields :
            /\ Cardinality(PropsNamed(out, k)) = 1
            /\ Get(out, k) = NormalizedField(nsCall.arg, nsCall.idx, k)

\* a raw source with an extra property and with accessLevel "PUBLIC", which the
\* result replaces by "public"
C16_Witness ==
  /\ NsReturned
  /\ Get(nsCall.arg, K_accessLevel) = Str(S_PUBLIC)
  /\ Get(nsRet.val, K_accessLevel) = Str(S_public)
  /\ HasOwn(nsCall.arg, K_access_level)
  /\ Get(nsRet.val, K_access_level) = Get(nsCall.arg, K_access_level)


\* the snippet of the raw source as C17 states it: the first of raw.snippet,
\* raw.metadata.snippet, raw.metadata.text that is present, else ""
ResolvedSnippet(raw) ==
  LET md == Get(raw, K_metadata)
      v  == IF Present(Get(raw, K_snippet)) THEN Get(raw, K_snippet)
            ELSE IF Present(Get(md, K_snippet)) THEN Get(md, K_snippet)
            ELSE IF Present(Get(md, K_text)) THEN Get(md, K_text)
            ELSE Str(S_empty)
  IN Trim(JsString(v).s)

\* the full text as C17 states it: the first of raw.fullText, raw.full_text,
\* raw.metadata.fullText, raw.metadata.text that is present, else the snippet
ResolvedFullText(raw) ==
  LET md == Get(raw, K_metadata)
  IN IF Present(Get(raw, K_fullText)) THEN Trim(JsString(Get(raw, K_fullText)).s)
     ELSE IF Present(Get(raw, K_full_text)) THEN Trim(JsString(Get(raw, K_full_text)).s)
     ELSE IF Present(Get(md, K_fullText)) THEN Trim(JsString(Get(md, K_fullText)).s)
     ELSE IF Present(Get(md, K_text)) THEN Trim(JsString(Get(md, K_text)).s)
     ELSE ResolvedSnippet(raw)

\* C17: fullText of the result is the first present candidate among
\* raw.fullText, raw.full_text, raw.metadata.fullText, raw.metadata.text, and
\* the resolved snippet when none is present; the snippet is the first present
\* among raw.snippet, raw.metadata.snippet, raw.metadata.text, else "".
C17_FullTextOrder ==
  NsReturned =>
    /\ Get(nsRet.val, K_snippet) = Str(ResolvedSnippet(nsCall.arg))
    /\ Get(nsRet.val, K_fullText) = Str(ResolvedFullText(nsCall.arg))

\* fullText is null and the other three candidates are absent: the full text
\* is the snippet, here the one of metadata.snippet
C17_Witness ==
  /\ NsReturned
  /\ nsCall.arg = Obj(<< KV(K_fullText, Null),
                         KV(K_metadata, Obj(<< KV(K_snippet, Str(S_text(6))) >>)) >>)
  /\ Get(nsRet.val, K_fullText) = Str(S_text(6))


----------------------------------------------------------------------------
(* Properties of the session list and of the transcript                    *)

\* the entry r made from the element e: the field is the default when e does
\* not have it, and the text of e when e has it as a string
FieldOr(e, r, key, dflt) ==
  /\ ~HasOwn(e, key) => Get(r, key) = dflt
  /\ Get(e, key).t = "string" => Get(r, key).s = Get(e, key).s

IsSessionOf(e, r) ==
  /\ FieldOr(e, r, K_id, Str(S_empty))
  /\ FieldOr(e, r, K_title, Str(S_NewChat))
  /\ FieldOr(e, r, K_preview, Str(S_empty))
  /\ FieldOr(e, r, K_updated_at, Null)

IsMessageOf(e, r) ==
  /\ FieldOr(e, r, K_id, Str(S_empty))
  /\ FieldOr(e, r, K_content, Str(S_empty))
  /\ FieldOr(e, r, K_created_at, Null)

\* C18: on a success response whose body is not an array, listChatSessions and
\* getChatSessionMessages resolve with the empty sequence; on an array body
\* the sequence they return has one entry per element, in the order of the
\* body, with id "", title "New chat", preview "" and updated_at null
\* (sessions), id "", content "" and created_at null (messages) for the fields
\* an element does not have.
C18_ListDefaults ==
  \A o \in { "listChatSessions", "getChatSessionMessages" } :
    SucceededCall(o) =>
      IF ~IsArray(res.val)
      THEN outcome.kind = "resolved" /\ outcome.val = Arr(<<>>)
      ELSE outcome.kind = "resolved" =>
             /\ IsArray(outcome.val)
             /\ Len(outcome.val.kv) = Len(res.val.kv)
             /\ \A i \in 1..Len(res.val.kv) :
                  IF o = "listChatSessions"
                  THEN IsSessionOf(res.val.kv[i].v, outcome.val.kv[i].v)
                  ELSE IsMessageOf(res.val.kv[i].v, outcome.val.kv[i].v)

\* a session list of two, the second without title and preview
C18_Witness ==
  /\ SucceededCall("listChatSessions") /\ outcome.kind = "resolved"
  /\ Len(res.val.kv) = 2
  /\ Get(outcome.val.kv[1].v, K_title) = Str(S_T)
  /\ Get(outcome.val.kv[2].v, K_title) = Str(S_NewChat)
  /\ Get(outcome.val.kv[2].v, K_preview) = Str(S_empty)
  /\ Get(outcome.val.kv[2].v, K_updated_at) = Null

\* C19: in the result of getChatSessionMessages the role of an entry is
\* "assistant" exactly when the role of the element is the string "assistant",
\* and "user" for every other element.
C19_RoleCoercion ==
  (SucceededCall("getChatSessionMessages") /\ outcome.kind = "resolved"
     /\ IsArray(res.val)) =>
    \A i \in 1..Len(res.val.kv) :
      Get(outcome.val.kv[i].v, K_role) =
        (IF Get(res.val.kv[i].v, K_role) = Str(S_assistant)
         THEN Str(S_assistant) ELSE Str(S_user))

\* a transcript with the roles "assistant", "Assistant" and null
C19_Witness ==
  /\ SucceededCall("getChatSessionMessages") /\ outcome.kind = "resolved"
  /\ Len(res.val.kv) = 3
  /\ Get(res.val.kv[2].v, K_role) = Str(S_Assistant)
  /\ Get(outcome.val.kv[1].v, K_role) = Str(S_assistant)
  /\ Get(outcome.val.kv[2].v, K_role) = Str(S_user)
  /\ Get(outcome.val.kv[3].v, K_role) = Str(S_user)


----------------------------------------------------------------------------
(* The chat component: handleSendMessage and the reply of the backend      *)

MaxMessages == 5

S_hi          == <<"h","i">>
S_ShowSources == <<" ","S","h","o","w"," ","S","o","u","r","c","e","s"," ">>
S_showSources == <<"s","h","o","w"," ","s","o","u","r","c","e","s">>
S_HereAre     == <<"H","e","r","e"," ","a","r","e"," ","t","h","e"," ","s","o","u","r","c","e","s"," ","f","o","r"," ","t","h","e"," ","p","r","e","v","i","o","u","s"," ","a","n","s","w","e","r",".">>
S_Sorry       == <<"S","o","r","r","y",","," ","I"," ","c","o","u","l","d","n","'","t"," ","r","e","a","c","h"," ","t","h","e"," ","k","n","o","w","l","e","d","g","e"," ","b","a","c","k","e","n","d","."," ","P","l","e","a","s","e"," ","t","r","y"," ","a","g","a","i","n"," ","i","n"," ","a"," ","m","o","m","e","n","t",".">>

\* what the user can have typed into the input box
InputTexts == { S_ShowSources, S_blank }

\* the argument of handleSendMessage: the submit event of the form
FormEvent == Obj(<<>>)

\* the elements of the array value a
ElemsOf(a) == { a.kv[i].v : i \in 1..Len(a.kv) }

\* the suggestions displayed under the messages, each one a click away
Suggestions ==
  UNION { ElemsOf(messages[j].followUpSuggestions) : j \in 1..Len(messages) }

\* the arguments handleSendMessage gets in the runs: the submit event, the
\* first suggestion of the welcome message, and the blank follow-up question
\* of the answer of the backend
SendEvents == { FormEvent, Str(S_Suggest1), Str(S_blank) }

\* faulty variant: the first six entries instead of the last six
HistoryOf_FromStart(msgs) ==
  [i \in 1..(IF Len(msgs) > 6 THEN 6 ELSE Len(msgs)) |->
     [role |-> msgs[i].role, content |-> msgs[i].content]]

\* [...messages, userMessage].slice(-6).map((m) => ({ role, content }))
HistoryOf(msgs) ==
  LET from == IF Len(msgs) > 6 THEN Len(msgs) - 5 ELSE 1
  IN [i \in 1..(Len(msgs) - from + 1) |->
        [role |-> msgs[from + i - 1].role, content |-> msgs[from + i - 1].content]]

\* lines 298-306 with the sources left as they are
OnRejected_KeepSources ==
  [messages |-> Append(messages, Message("assistant", Str(S_Sorry), Undefined, Undefined)),
   currentSources |-> currentSources]

\* lines 298-306: the catch block
OnRejected ==
  [messages |-> Append(messages, Message("assistant", Str(S_Sorry), Undefined, Undefined)),
   currentSources |-> Arr(<<>>)]

\* lines 280-294: the rest of the try block, data the value the call resolved
\* with; an exception in it is caught by the catch block
OnResolved(data) ==
  LET sources   == IF Truthy(Get(data, K_sources)) THEN Get(data, K_sources) ELSE Arr(<<>>)
      citations == mapBackendSourcesToCitations(sources)
  IN IF citations.threw THEN OnRejected
     ELSE [messages |->
             Append(messages,
                    Message("assistant", Get(data, K_answer), citations.val,
                            Coalesce(<< Get(data, K_follow_up_questions), Arr(<<>>) >>))),
           currentSources |-> citations.val]

\* onChange of the input box (line 521), which is disabled while loading
SetInput(t) ==
  /\ ~isLoading
  /\ inputText # t
  /\ inputText' = t
  /\ UNCHANGED << messages, currentSources, isLoading, agVars, request, thVars,
                  tVars, nsVars >>

\* faulty variant: the note of the assistant without the citations
ShowSourcesMessages_Bare(messageText) ==
  << Message("user", Str(messageText), Undefined, Undefined),
     Message("assistant", Str(S_HereAre), Undefined, Undefined) >>

\* lines 236-252: the two messages the "show sources" command appends
ShowSourcesMessages(messageText) ==
  << Message("user", Str(messageText), Undefined, Undefined),
     Message("assistant", Str(S_HereAre), currentSources, Undefined) >>

\* handleSendMessage up to the await (lines 225-276): e is the submit event or
\* the text of a suggestion
HandleSendMessage(e) ==
  /\ e = FormEvent \/ e \in Suggestions
  /\ LET messageText == IF e.t = "string" THEN e.s ELSE Trim(inputText)
         lower       == Trim(ToLowerCase(messageText))
         userMessage == Message("user", Str(messageText), Undefined, Undefined)
     IN IF messageText = <<>> \/ isLoading
          THEN UNCHANGED vars
        ELSE IF lower = S_showSources /\ Len(currentSources.kv) > 0
          THEN /\ messages' = messages \o ShowSourcesMessages(messageText)
               /\ inputText' = <<>>
               /\ UNCHANGED << currentSources, isLoading, agVars, request, thVars,
                               tVars, nsVars >>
        ELSE /\ messages' = Append(messages, userMessage)
             /\ inputText' = <<>>
             /\ isLoading' = TRUE
             /\ request' = [sent |-> TRUE, question |-> messageText, scope |-> scope,
                            agent |-> activeAgent, strictCitations |-> strictCitations,
                            history |-> HistoryOf(Append(messages, userMessage))]
             /\ StartCall("askKnowledgeAgent")
             /\ UNCHANGED << currentSources, agVars, thVars, nsVars >>

\* a send while the conversation has room for the question and its answer
Send(e) == Len(messages) + 2 <= MaxMessages /\ HandleSendMessage(e)

\* faulty variant: isLoading reset at the end of the try block only
LoadingAfterFinally_TryOnly == outcome.kind # "resolved"

\* the finally block, lines 307-309: isLoading after it, whichever way the
\* call settled
LoadingAfterFinally == FALSE

\* handleSendMessage after the await (lines 280-309): the call has settled
HandleReply ==
  /\ isLoading
  /\ LET after == IF outcome.kind = "resolved" THEN OnResolved(outcome.val) ELSE OnRejected
     IN /\ messages' = after.messages
        /\ currentSources' = after.currentSources
  /\ isLoading' = LoadingAfterFinally
  /\ Settle
  /\ UNCHANGED << inputText, agVars, request, thVars, nsVars >>

MaxThreads == 2

\* the ids a thread can have, and so the ids the left panel can hand over
ThreadIds == 1..MaxThreads

\* a ChatThread: its id and its messages (title, preview and timestamp are
\* constants nothing reads)
ChatThread(id, msgs) == [id |-> id, messages |-> msgs]

\* threads.find((t) => t.id === id): the position of the thread, 0 when absent
FindThread(id) ==
  IF \E i \in 1..Len(threads) : threads[i].id = id
  THEN CHOOSE i \in 1..Len(threads) :
         threads[i].id = id /\ \A j \in 1..(i - 1) : threads[j].id # id
  ELSE 0

\* handleNewThread, lines 312-325; the id is the reading of the clock
\* (Date.now(), in milliseconds), which may be the same for two clicks
HandleNewThread ==
  /\ Len(threads) < MaxThreads
  /\ \E now \in { clock, clock + 1 } :
       /\ now \in ThreadIds
       /\ clock' = now
       /\ threads' = << ChatThread(now, << messages[1] >>) >> \o threads
       /\ activeThreadId' = now
  /\ messages' = << messages[1] >>
  /\ currentSources' = Arr(<<>>)
  /\ UNCHANGED << isLoading, inputText, agVars, request, tVars, nsVars >>

\* faulty variant: the thread is shown without being looked up
SelectedThread_Unchecked(id) == IF Len(threads) > 0 THEN 1 ELSE 0

\* onSelectThread, line 333: the thread to show, 0 when there is none
SelectedThread(id) == FindThread(id)

\* onSelectThread, lines 332-339
OnSelectThread(id) ==
  LET i == SelectedThread(id)
  IN IF i = 0 THEN UNCHANGED vars
     ELSE LET msgs == threads[i].messages
              last == IF Len(msgs) = 0 THEN Undefined ELSE msgs[Len(msgs)].citations
          IN /\ activeThreadId' = id
             /\ messages' = msgs
             /\ currentSources' = IF Truthy(last) THEN last ELSE Arr(<<>>)
             /\ UNCHANGED << threads, clock, isLoading, inputText, agVars, request,
                             tVars, nsVars >>

\* onDeleteThread, lines 341-347
OnDeleteThread(id) ==
  /\ threads' = SelectSeq(threads, LAMBDA t : t.id # id)
  /\ IF activeThreadId = id
     THEN activeThreadId' = NoThread /\ messages' = << messages[1] >>
     ELSE UNCHANGED << activeThreadId, messages >>
  /\ UNCHANGED << clock, currentSources, isLoading, inputText, agVars, request,
                  tVars, nsVars >>

Agents == { "knowledge", "mortgage", "industry" }
Scopes == { "internal", "web", "hybrid" }

\* faulty variant: the industry agent selected without its scope being forced
AfterAgentChange_Unforced(next) ==
  [activeAgent |-> next, scope |-> scope, strictCitations |-> strictCitations]

\* onAgentChange, lines 356-364: the three values after the handler
AfterAgentChange(next) ==
  [activeAgent |-> next,
   scope |-> IF next = "industry" THEN "web" ELSE scope,
   strictCitations |-> IF next = "industry" THEN FALSE ELSE strictCitations]

\* onAgentChange, lines 356-364
OnAgentChange(next) ==
  /\ activeAgent' = AfterAgentChange(next).activeAgent
  /\ scope' = AfterAgentChange(next).scope
  /\ strictCitations' = AfterAgentChange(next).strictCitations
  /\ UNCHANGED << messages, currentSources, isLoading, inputText, request, thVars,
                  tVars, nsVars >>

\* onScopeChange, lines 366-370
OnScopeChange(sc) ==
  /\ scope' = IF activeAgent = "industry" /\ sc # "web" THEN scope ELSE sc
  /\ UNCHANGED << activeAgent, strictCitations, messages, currentSources, isLoading,
                  inputText, request, thVars, tVars, nsVars >>

\* onStrictCitationsChange, lines 372-376
OnStrictCitationsChange(v) ==
  /\ strictCitations' = IF activeAgent = "industry" THEN strictCitations ELSE v
  /\ UNCHANGED << activeAgent, scope, messages, currentSources, isLoading,
                  inputText, request, thVars, tVars, nsVars >>

\* the responses the backend gives to /api/chat in the runs of the component
\* the answers: one with a source and two follow-up questions, one whose
\* source cannot be converted
UiBodies ==
  { Obj(<< KV(K_answer, Str(S_X)),
           KV(K_sources, Arr(<< Obj(<< KV(K_id, Str(S_a)), KV(K_access_level, Str(S_PUBLIC)) >>) >>)),
           KV(K_follow_up_questions, Arr(<< Str(S_B), Str(S_blank) >>)) >>),
    Obj(<< KV(K_sources, Arr(<< Obj(<< KV(K_title, ToStringObj) >>) >>)) >>) }

UiResponses ==
  { Response(TRUE, 200, "json", b, <<>>) : b \in UiBodies }
  \cup { Response(FALSE, 500, "text", Undefined, S_oops) }

NextUI ==
  \/ \E t \in InputTexts : SetInput(t)
  \/ \E e \in SendEvents : Send(e)
  \/ \E r \in UiResponses : FetchResolves(r)
  \/ FetchRejects
  \/ ParseErrorJson
  \/ ParseErrorText
  \/ ReadBody
  \/ HandleReply
  \/ HandleNewThread
  \/ \E id \in ThreadIds : OnSelectThread(id)
  \/ \E id \in ThreadIds : OnDeleteThread(id)

SpecUI == Init /\ [][NextUI]_vars

\* the positions of a call that has not settled
Pending == { "fetch", "parseError", "parseErrorText", "body" }

\* a step of the outstanding call (FetchResolves, FetchRejects, ParseErrorJson,
\* ParseErrorText, ReadBody): its position moves on
CallAdvances ==
  /\ pc \in Pending
  /\ pc' \in (Pending \cup { "done" }) \ { pc }

\* the continuation of handleSendMessage takes the settled call (HandleReply)
ReplyTaken == pc = "done" /\ isLoading /\ pc' = "idle"

\* the component when every request settles: the call takes its steps, and
\* the event loop runs the continuation of handleSendMessage once the promise
\* of askKnowledgeAgent has settled. Fairness is stated on the position of
\* the call, which no other step of the component changes.
SpecSettles == SpecUI /\ WF_pc(CallAdvances) /\ WF_pc(ReplyTaken)

\* the controls of the agent, with a backend that cannot be reached
NextAgent ==
  \/ \E next \in Agents : OnAgentChange(next)
  \/ \E sc \in Scopes : OnScopeChange(sc)
  \/ \E v \in BOOLEAN : OnStrictCitationsChange(v)
  \/ \E t \in InputTexts : SetInput(t)
  \/ \E e \in SendEvents : Send(e)
  \/ FetchRejects
  \/ HandleReply

SpecAgent == Init /\ [][NextAgent]_vars

MaxExchanges == 4

\* the n-th question and answer of a conversation
Question(n) == Message("user", Str(<< "q" >> \o NatDigits(n)), Undefined, Undefined)
Answer(n)   == Message("assistant", Str(<< "a" >> \o NatDigits(n)), Arr(<<>>), Arr(<<>>))

\* the displayed messages after k answered questions
Conversation(k) ==
  << WelcomeMessage >> \o
  [i \in 1..(2 * k) |-> IF i % 2 = 1 THEN Question((i + 1) \div 2) ELSE Answer(i \div 2)]

\* the component some answered questions after it was mounted
InitHistory ==
  /\ nsCall = NsNone /\ nsRet = NsPending /\ mapRet = NsPending
  /\ RagIdle /\ TransportIdle
  /\ messages \in { Conversation(k) : k \in 0..MaxExchanges }
  /\ currentSources = Arr(<<>>)
  /\ isLoading = FALSE
  /\ inputText = <<>>
  /\ activeAgent = "knowledge"
  /\ scope = "hybrid"
  /\ strictCitations = FALSE
  /\ request = NoRequest
  /\ threads = <<>>
  /\ activeThreadId = NoThread
  /\ clock = 0

\* the next question of such a conversation
NextQuestion(e) == ~request.sent /\ HandleSendMessage(e)

NextHistory ==
  \/ \E t \in InputTexts : SetInput(t)
  \/ \E e \in SendEvents : NextQuestion(e)
  \/ \E r \in UiResponses : FetchResolves(r)
  \/ FetchRejects
  \/ ParseErrorJson
  \/ ParseErrorText
  \/ ReadBody
  \/ HandleReply

SpecHistory == InitHistory /\ [][NextHistory]_vars

Components == { "chat", "enhanced" }
Roles      == { "admin", "employee" }

\* what is searched for: nothing, a word of a title in another case, words of
\* internal and of public documents, a word no document has
Queries ==
  { <<>>, << "A", "P", "I" >>, << "s", "l", "a" >>, << "R", "u", "l", "e", "s" >>,
    << "e", "m", "p", "l", "o", "y" >>, << "d", "o", "c" >>, << "z", "z", "z" >> }

RagCalls ==
  { [component |-> c, role |-> r, scope |-> sc, query |-> q] :
      c \in Components, r \in Roles, sc \in Scopes, q \in Queries }

InitRag ==
  /\ nsCall = NsNone /\ nsRet = NsPending /\ mapRet = NsPending
  /\ panelRet = NsPending /\ ragCall \in RagCalls /\ ragRet = RagPending
  /\ TransportIdle /\ UiMounted

CallPerformRAG ==
  /\ ~ragRet.done
  /\ ragRet' = [done |-> TRUE,
                docs |-> performRAG(ragCall.component, ragCall.role, ragCall.scope,
                                    ragCall.query)]
  /\ UNCHANGED << nsCall, nsRet, mapRet, panelRet, ragCall, tVars, uiVars >>

NextRag == CallPerformRAG

SpecRag == InitRag /\ [][NextRag]_vars


----------------------------------------------------------------------------
(* Properties of the chat component (checked under SpecUI)                 *)

\* the message the catch block appends
FallbackMessage == Message("assistant", Str(S_Sorry), Undefined, Undefined)

\* C20: when the call of askKnowledgeAgent has rejected, the step in which
\* handleSendMessage takes the rejection leaves every displayed message in
\* place (the message of the user among them), appends exactly one assistant
\* message with the fallback text, makes currentSources empty and isLoading
\* false.
C20_RejectionFallback ==
  [][ (pc = "done" /\ op = "askKnowledgeAgent" /\ outcome.kind = "rejected"
         /\ isLoading /\ pc' = "idle")
      => /\ messages' = Append(messages, FallbackMessage)
         /\ currentSources' = Arr(<<>>)
         /\ isLoading' = FALSE ]_vars

\* an answer with citations, then a question whose request was rejected: the
\* question is still displayed, the fallback follows it, no citation is shown
C20_Witness ==
  /\ Len(messages) = 5
  /\ Len(messages[3].citations.kv) > 0
  /\ messages[4] = Message("user", Str(request.question), Undefined, Undefined)
  /\ messages[5] = FallbackMessage
  /\ currentSources = Arr(<<>>)
  /\ ~isLoading


\* C21: whenever the active agent is "industry" the scope is "web" and
\* strictCitations is false, whatever sequence of agent changes, scope changes
\* and strict-citation toggles came before; and every request sent with agent
\* "industry" has scope "web" and strictCitations false.
C21_IndustryGating ==
  /\ activeAgent = "industry" => (scope = "web" /\ strictCitations = FALSE)
  /\ (request.sent /\ request.agent = "industry") =>
       (request.scope = "web" /\ request.strictCitations = FALSE)

\* a request sent for the industry agent, after which the user went back to
\* another agent and turned strict citations on
C21_Witness ==
  /\ request.sent /\ request.agent = "industry" /\ request.scope = "web"
  /\ activeAgent = "mortgage" /\ strictCitations = TRUE


\* C22: the history of a request holds at most 6 entries of role and content;
\* they are the last displayed messages, in their order, followed by the
\* question just sent, which is its final entry.
C22_BoundedHistory ==
  [][ request' # request =>
        LET h    == request'.history
            shown == Len(h) - 1
        IN /\ Len(h) <= 6
           /\ Len(h) = (IF Len(messages) + 1 > 6 THEN 6 ELSE Len(messages) + 1)
           /\ h[Len(h)] = [role |-> "user", content |-> Str(request'.question)]
           /\ \A i \in 1..shown :
                LET m == messages[Len(messages) - shown + i]
                IN h[i] = [role |-> m.role, content |-> m.content] ]_vars

\* nine messages displayed, the question among them: the history starts at
\* the answer to the second question
C22_Witness ==
  /\ request.sent /\ isLoading
  /\ Len(messages) = 10
  /\ Len(request.history) = 6
  /\ request.history[1] = [role |-> "assistant", content |-> Answer(2).content]
  /\ request.history[6].role = "user"


\* the text handleSendMessage takes from its argument: the suggestion as it is,
\* or the trimmed text of the input box
MessageTextOf(e) == IF e.t = "string" THEN e.s ELSE Trim(inputText)

\* the text is the command "show sources", whatever its case and the white
\* space around it
IsShowSources(text) == Trim(ToLowerCase(text)) = S_showSources

\* the events that can carry the command: the submit event, whatever was
\* typed, and the suggestions that spell it
ShowSourcesEvents == { e \in SendEvents : e = FormEvent \/ IsShowSources(e.s) }

\* C23: a send of "show sources" while currentSources is not empty makes no
\* request, appends exactly the message of the user and an assistant message
\* that carries currentSources as citations, and leaves currentSources and
\* isLoading as they are; while currentSources is empty the same text is sent
\* to the backend as a question.
C23_ShowSources ==
  [][ \A e \in ShowSourcesEvents :
        (~isLoading /\ IsShowSources(MessageTextOf(e)) /\ HandleSendMessage(e)) =>
          LET user == Message("user", Str(MessageTextOf(e)), Undefined, Undefined)
          IN IF Len(currentSources.kv) > 0
             THEN /\ UNCHANGED << tVars, request, currentSources, isLoading >>
                  /\ Len(messages') = Len(messages) + 2
                  /\ SubSeq(messages', 1, Len(messages)) = messages
                  /\ messages'[Len(messages) + 1] = user
                  /\ messages'[Len(messages) + 2].role = "assistant"
                  /\ messages'[Len(messages) + 2].citations = currentSources
             ELSE /\ messages' = Append(messages, user)
                  /\ pc' = "fetch" /\ op' = "askKnowledgeAgent"
                  /\ request'.sent /\ request'.question = MessageTextOf(e)
                  /\ isLoading' ]_vars

\* an answer with a source, then the command: four messages, the last one
\* with the citations of the answer, and no request for the command
C23_Witness ==
  /\ Len(messages) = 5
  /\ IsShowSources(messages[4].content.s)
  /\ messages[5].content = Str(S_HereAre)
  /\ Len(messages[5].citations.kv) > 0
  /\ messages[5].citations = currentSources
  /\ request.question # messages[4].content.s
  /\ ~isLoading


----------------------------------------------------------------------------
(* Properties of the mock search (checked under SpecRag)                   *)

\* the knowledge base the call searches
BaseOf(call) ==
  IF call.component = "enhanced" THEN KNOWLEDGE_BASE_Enhanced ELSE KNOWLEDGE_BASE

\* the documents of the base that match the query and, in the enhanced
\* component, the scope, whatever the role
UnrestrictedBy(call) ==
  SelectSeq(BaseOf(call),
            LAMBDA d : /\ Matches(d, ToLowerCase(call.query))
                       /\ (call.component = "enhanced" /\ call.scope = "internal")
                            => d.accessLevel = "internal"
                       /\ (call.component = "enhanced" /\ call.scope = "web")
                            => d.accessLevel = "public")

\* C24: performRAG returns at most 3 documents; for an employee none of them
\* is internal, for every query and every scope; for an admin they are the
\* first three documents that match the query and the scope, with no
\* restriction by role.
C24_EmployeeSeesPublicOnly ==
  ragRet.done =>
    /\ Len(ragRet.docs) <= 3
    /\ ragCall.role = "employee" =>
         \A i \in 1..Len(ragRet.docs) : ragRet.docs[i].accessLevel = "public"
    /\ ragCall.role = "admin" =>
         ragRet.docs = Slice0(UnrestrictedBy(ragCall), 3)

\* a query that more than three documents match, internal ones among them:
\* the employee gets the two public ones only
C24_Witness ==
  /\ ragRet.done /\ ragCall.role = "employee" /\ ragCall.scope = "hybrid"
  /\ ragCall.component = "enhanced"
  /\ Len(ragRet.docs) = 2
  /\ Len(UnrestrictedBy(ragCall)) > 3


----------------------------------------------------------------------------
(* Properties of the sources panel (checked under SpecNorm)                *)

\* C25 as stated: a source whose accessLevel normalizeSource resolved to
\* "internal" has the accessLevel "internal" in the list the sources panel
\* renders, after mapBackendSourcesToCitations and the normalization of the
\* panel, so it never gets the badge "Public".
C25_InternalNeverShownPublic ==
  (panelRet.done /\ ~panelRet.threw) =>
    \A i \in 1..Len(nsRet.val.kv) :
      Get(nsRet.val.kv[i].v, K_accessLevel) = Str(S_internal) =>
        Get(panelRet.val.kv[i].v, K_accessLevel) = Str(S_internal)


\* the step in which handleSendMessage takes the settled call
ReplyStep == pc = "done" /\ op = "askKnowledgeAgent" /\ isLoading /\ pc' = "idle"

\* C26 as stated: whatever new-thread, select-thread and delete-thread events
\* came between a send and its reply, the reply is appended directly after
\* the question it answers: the last displayed message is that question when
\* the reply arrives, and the reply becomes the message after it.
C26_ReplyAfterItsQuestion ==
  [][ ReplyStep =>
        /\ messages[Len(messages)] =
             Message("user", Str(request.question), Undefined, Undefined)
        /\ Len(messages') = Len(messages) + 1
        /\ SubSeq(messages', 1, Len(messages)) = messages
        /\ messages'[Len(messages')].role = "assistant" ]_vars


\* C27 as stated: handleSendMessage, from the form or from a click on a
\* follow-up suggestion, appends no message and sends no request while
\* isLoading is true, and none when the message text is empty after trimming.
C27_NothingWhileLoadingOrBlank ==
  [][ \A e \in SendEvents :
        (HandleSendMessage(e) /\ (isLoading \/ Trim(MessageTextOf(e)) = <<>>)) =>
          UNCHANGED << messages, request, isLoading, tVars >> ]_vars

\* the part of C27 the guard of line 230 does give: nothing is appended and
\* nothing is sent while a request is outstanding
C27_NothingWhileLoading ==
  [][ \A e \in SendEvents :
        (HandleSendMessage(e) /\ isLoading) =>
          UNCHANGED << messages, request, isLoading, tVars >> ]_vars


\* C28: when every request settles, a send that sets isLoading is followed by
\* isLoading being false again; the step that takes the settled call, resolved
\* or rejected, appends exactly one assistant message and resets isLoading, and
\* no other step appends a message while the request is outstanding.
C28_LoadingEnds ==
  /\ isLoading ~> ~isLoading
  /\ [][ ReplyStep =>
           /\ ~isLoading'
           /\ Len(messages') = Len(messages) + 1
           /\ SubSeq(messages', 1, Len(messages)) = messages
           /\ messages'[Len(messages')].role = "assistant" ]_vars
  /\ [][ (isLoading /\ ~ReplyStep) =>
           (isLoading' /\ Len(messages') <= Len(messages)) ]_vars

\* a request was rejected, its fallback message is displayed after the
\* question and the input is enabled again
C28_Witness ==
  /\ request.sent /\ ~isLoading /\ pc = "idle"
  /\ Len(messages) = 3
  /\ messages[2].role = "user"
  /\ messages[3].role = "assistant"
  /\ messages[3].content = Str(S_Sorry)


\* the citations of the last displayed message, empty when it has none
CitationsOfLast ==
  LET last == messages[Len(messages)].citations
  IN IF Truthy(last) THEN last ELSE Arr(<<>>)

\* a step of handleNewThread, onSelectThread or onDeleteThread
ThreadStep ==
  \/ HandleNewThread
  \/ \E id \in ThreadIds : OnSelectThread(id) \/ OnDeleteThread(id)

\* C29 as stated: after each of new-thread, select-thread and delete-thread,
\* currentSources equals the citations of the last displayed message, so it
\* is empty whenever the displayed messages are reset to only the welcome
\* message.
C29_SourcesOfDisplayed ==
  [][ ThreadStep => currentSources' = CitationsOfLast' ]_vars


\* the ids of the threads in the list
IdsOfThreads == { threads[i].id : i \in 1..Len(threads) }

\* C30: activeThreadId is null or the id of a thread in the list, after any
\* sequence of events; creating a thread prepends it and makes it active,
\* selecting an id that is not in the list changes nothing, deleting the
\* active thread sets activeThreadId to null, and deleting another thread
\* leaves activeThreadId and the displayed messages unchanged.
C30_ActiveThreadListed ==
  /\ [](activeThreadId = NoThread \/ activeThreadId \in IdsOfThreads)
  /\ [][ HandleNewThread =>
           /\ Len(threads') = Len(threads) + 1
           /\ SubSeq(threads', 2, Len(threads')) = threads
           /\ activeThreadId' = threads'[1].id ]_vars
  /\ [][ \A id \in ThreadIds :
           /\ (OnSelectThread(id) /\ id \notin IdsOfThreads) => UNCHANGED vars
           /\ (OnDeleteThread(id) /\ id = activeThreadId) => activeThreadId' = NoThread
           /\ (OnDeleteThread(id) /\ id # activeThreadId) =>
                UNCHANGED << activeThreadId, messages >> ]_vars

\* two threads were created, the first one was selected and the other deleted
C30_Witness ==
  /\ clock = 2
  /\ Len(threads) = 1
  /\ threads[1].id = 1
  /\ activeThreadId = 1

====
